---------------------------- MODULE Spec2Model ----------------------------
(***************************************************************************)
(* Addison Care dashboard (src/app/page.tsx): the dose recommendation      *)
(* engine (runAlgorithm and the pure functions it calls) and the workflow  *)
(* handlers that feed it.                                                  *)
(*                                                                         *)
(* Number encoding.  JavaScript numbers are doubles; the model keeps them  *)
(* as integers in a fixed scale:                                           *)
(*   glucocorticoid doses   centi-mg      (18.75 mg  -> 1875)              *)
(*   fludrocortisone        micro-g       (0.1 mg    -> 100)               *)
(*   potassium, renin       tenths        (3.5 mEq/L -> 35)                *)
(*   doseResponseSlope      hundredths    (0.8       -> 80)                *)
(*   stabilityScore,                                                       *)
(*   confidence, QoL mean   hundredths    (77.5      -> 7750)              *)
(*   everything else        as written                                     *)
(* null and undefined are both NULL; a nullable scalar v is <<v>>.          *)
(***************************************************************************)
EXTENDS Integers, Sequences, FiniteSets, TLC

NULL == <<>>

Max(a, b) == IF a >= b THEN a ELSE b

Min(a, b) == IF a <= b THEN a ELSE b

Abs(a) == IF a < 0 THEN 0 - a ELSE a

\* Math.round of the rational num/den (den > 0): floor(x + 1/2).
MathRound(num, den) == (2 * num + den) \div (2 * den)

RECURSIVE SumSeq(_)
SumSeq(s) == IF s = <<>> THEN 0 ELSE Head(s) + SumSeq(Tail(s))

RECURSIVE ProdSeq(_)
ProdSeq(s) == IF s = <<>> THEN 1 ELSE Head(s) * ProdSeq(Tail(s))

RECURSIVE Pow(_, _)
Pow(b, n) == IF n = 0 THEN 1 ELSE b * Pow(b, n - 1)

DedupKeepingAll(s, seen) == s

RECURSIVE Dedup(_, _)
Dedup(s, seen) ==
    IF s = <<>> THEN <<>>
    ELSE IF Head(s) \in seen THEN Dedup(Tail(s), seen)
         ELSE <<Head(s)>> \o Dedup(Tail(s), seen \cup {Head(s)})

Range(s) == {s[i] : i \in 1..Len(s)}

(***************************************************************************)
(* Strings.                                                                *)
(***************************************************************************)
UpperLower ==
    <<  <<"A","a">>, <<"B","b">>, <<"C","c">>, <<"D","d">>, <<"E","e">>,
        <<"F","f">>, <<"G","g">>, <<"H","h">>, <<"I","i">>, <<"J","j">>,
        <<"K","k">>, <<"L","l">>, <<"M","m">>, <<"N","n">>, <<"O","o">>,
        <<"P","p">>, <<"Q","q">>, <<"R","r">>, <<"S","s">>, <<"T","t">>,
        <<"U","u">>, <<"V","v">>, <<"W","w">>, <<"X","x">>, <<"Y","y">>,
        <<"Z","z">> >>

LowerChar(c) ==
    IF \E i \in 1..Len(UpperLower) : UpperLower[i][1] = c
    THEN UpperLower[CHOOSE i \in 1..Len(UpperLower) : UpperLower[i][1] = c][2]
    ELSE c

RECURSIVE toLowerCase(_)
toLowerCase(t) ==
    IF Len(t) = 0 THEN ""
    ELSE LowerChar(SubSeq(t, 1, 1)) \o toLowerCase(SubSeq(t, 2, Len(t)))

\* a match on the first three characters of the variant only
includesStem(t, v) ==
    \E i \in 1..(Len(t) - 2) : SubSeq(t, i, i + 2) = SubSeq(v, 1, 3)

\* String.prototype.includes
includes(t, v) ==
    \E i \in 1..(Len(t) - Len(v) + 1) : SubSeq(t, i, i + Len(v) - 1) = v

\* medicationsText.trim() === ''
IsBlank(t) == \A i \in 1..Len(t) : SubSeq(t, i, i) \in {" ", "\t", "\n", "\r"}

\* A JavaScript number that is not an integer of the model's scale is kept
\* as the fraction <<numerator, denominator>> in lowest terms.
RECURSIVE GCD(_, _)
GCD(a, b) == IF b = 0 THEN a ELSE GCD(b, a % b)

Rat(num, den) ==
    LET g == GCD(Abs(num), den)
    IN  IF num = 0 THEN <<0, 1>> ELSE <<num \div g, den \div g>>

\* value * (num / den) and value / (num / den)
Times(value, num, den) == Rat(value[1] * num, value[2] * den)

\* the reverse conversion written as a second multiplication
DividedByAsTimes(value, num, den) == Rat(value[1] * num, value[2] * den)

DividedBy(value, num, den) == Rat(value[1] * den, value[2] * num)
DRUG_DATABASE ==
    <<
      [ key |-> "rifampicina", variants |-> <<"rifampicina", "rifampin", "rifadin">>,
        category |-> "cyp3a4_inducer", severity |-> "critical", effect |-> "increase_gc_need", doseAdjustment |-> 50,
        recommendations |-> <<"Aumentare dose glucocorticoide del 50-100%", "Monitorare ACTH e sintomi clinici strettamente", "Considerare formulazioni ER-HC per maggiore stabilita">>,
        monitoring |-> <<"ACTH ogni 2-3 settimane", "Elettroliti settimanali", "Pressione arteriosa">> ],
      [ key |-> "fenitoina", variants |-> <<"fenitoina", "phenytoin", "dintoina", "aurantin">>,
        category |-> "cyp3a4_inducer", severity |-> "major", effect |-> "increase_gc_need", doseAdjustment |-> 35,
        recommendations |-> <<"Aumentare dose glucocorticoide del 25-50%", "Valutare switch ad antiepilettici non induttori se possibile">>,
        monitoring |-> <<"ACTH mensile", "Sintomi ipocortisolismo">> ],
      [ key |-> "carbamazepina", variants |-> <<"carbamazepina", "carbamazepine", "tegretol">>,
        category |-> "cyp3a4_inducer", severity |-> "major", effect |-> "increase_gc_need", doseAdjustment |-> 35,
        recommendations |-> <<"Aumentare dose glucocorticoide del 25-50%", "Considerare alternative (lamotrigina, levetiracetam)">>,
        monitoring |-> <<"ACTH mensile", "Funzionalita epatica">> ],
      [ key |-> "fenobarbital", variants |-> <<"fenobarbital", "phenobarbital", "gardenal", "luminal">>,
        category |-> "cyp3a4_inducer", severity |-> "major", effect |-> "increase_gc_need", doseAdjustment |-> 30,
        recommendations |-> <<"Aumentare dose glucocorticoide del 30-40%", "Monitoraggio frequente nei primi 2 mesi">>,
        monitoring |-> <<"ACTH ogni 3-4 settimane">> ],
      [ key |-> "ritonavir", variants |-> <<"ritonavir", "norvir">>,
        category |-> "cyp3a4_inhibitor", severity |-> "critical", effect |-> "decrease_gc_need", doseAdjustment |-> -30,
        recommendations |-> <<"Ridurre dose glucocorticoide del 25-35%", "Rischio significativo di Cushing iatrogeno", "Considerare monitoraggio cortisolo libero urinario">>,
        monitoring |-> <<"Cortisolo libero urinario 24h mensile", "Peso corporeo", "Glicemia", "PA settimanale">> ],
      [ key |-> "itraconazolo", variants |-> <<"itraconazolo", "itraconazole", "sporanox">>,
        category |-> "cyp3a4_inhibitor", severity |-> "major", effect |-> "decrease_gc_need", doseAdjustment |-> -25,
        recommendations |-> <<"Ridurre dose glucocorticoide del 20-30%", "Monitorare segni di sovradosaggio">>,
        monitoring |-> <<"Peso", "PA", "Glicemia">> ],
      [ key |-> "ketoconazolo", variants |-> <<"ketoconazolo", "ketoconazole", "nizoral">>,
        category |-> "cyp3a4_inhibitor", severity |-> "major", effect |-> "decrease_gc_need", doseAdjustment |-> -25,
        recommendations |-> <<"Ridurre dose glucocorticoide del 20-30%", "(!) Ketoconazolo stesso inibisce sintesi steroidea">>,
        monitoring |-> <<"Funzione surrenalica", "Elettroliti">> ],
      [ key |-> "claritromicina", variants |-> <<"claritromicina", "clarithromycin", "klacid", "macladin">>,
        category |-> "cyp3a4_inhibitor", severity |-> "moderate", effect |-> "decrease_gc_need", doseAdjustment |-> -20,
        recommendations |-> <<"Ridurre dose glucocorticoide del 15-25% durante terapia", "Ritornare a dose normale dopo sospensione antibiotico">>,
        monitoring |-> <<"Sintomi Cushing durante terapia">> ],
      [ key |-> "eritromicina", variants |-> <<"eritromicina", "erythromycin", "eritrocina">>,
        category |-> "cyp3a4_inhibitor", severity |-> "moderate", effect |-> "decrease_gc_need", doseAdjustment |-> -15,
        recommendations |-> <<"Ridurre dose glucocorticoide del 10-20% durante terapia">>,
        monitoring |-> <<"PA", "Sintomi">> ],
      [ key |-> "estradiolo", variants |-> <<"estradiolo", "estradiol", "progynova", "climara">>,
        category |-> "estrogen", severity |-> "major", effect |-> "increase_gc_need", doseAdjustment |-> 30,
        recommendations |-> <<"Aumentare dose glucocorticoide del 25-40%", "Gli estrogeni aumentano CBG -> riduce cortisolo libero", "Considerare via transdermica per minore effetto">>,
        monitoring |-> <<"ACTH", "Cortisolo libero", "Sintomi ipocortisolismo">> ],
      [ key |-> "etinilestradiolo", variants |-> <<"etinilestradiolo", "ethinylestradiol", "pillola", "contraccettivo orale">>,
        category |-> "estrogen", severity |-> "major", effect |-> "increase_gc_need", doseAdjustment |-> 30,
        recommendations |-> <<"Aumentare dose glucocorticoide del 25-40%", "Considerare contraccettivi progestinici puri">>,
        monitoring |-> <<"ACTH mensile primi 3 mesi">> ],
      [ key |-> "furosemide", variants |-> <<"furosemide", "lasix">>,
        category |-> "diuretic", severity |-> "moderate", effect |-> "electrolyte_risk", doseAdjustment |-> 0,
        recommendations |-> <<"Monitorare elettroliti frequentemente", "Rischio ipokaliemia aumentato", "Possibile necessita riduzione florinef">>,
        monitoring |-> <<"Na, K settimanali", "Funzione renale">> ],
      [ key |-> "idroclorotiazide", variants |-> <<"idroclorotiazide", "hydrochlorothiazide", "esidrex">>,
        category |-> "diuretic", severity |-> "moderate", effect |-> "electrolyte_risk", doseAdjustment |-> 0,
        recommendations |-> <<"Monitorare ipokaliemia", "Puo mascherare deficit mineralcorticoide">>,
        monitoring |-> <<"Elettroliti settimanali">> ],
      [ key |-> "spironolattone", variants |-> <<"spironolattone", "spironolactone", "aldactone">>,
        category |-> "diuretic", severity |-> "major", effect |-> "electrolyte_risk", doseAdjustment |-> 0,
        recommendations |-> <<"(!) ANTAGONISTA MINERALCORTICOIDE", "Puo richiedere aumento significativo florinef", "Valutare alternative se possibile">>,
        monitoring |-> <<"Na, K ogni 3-5 giorni", "Renina", "PA">> ],
      [ key |-> "enalapril", variants |-> <<"enalapril", "enapren">>,
        category |-> "ace_inhibitor", severity |-> "moderate", effect |-> "electrolyte_risk", doseAdjustment |-> 0,
        recommendations |-> <<"Monitorare iperkaliemia", "Puo ridurre aldosterone endogeno residuo">>,
        monitoring |-> <<"K, Na settimanali inizialmente">> ],
      [ key |-> "ramipril", variants |-> <<"ramipril", "triatec">>,
        category |-> "ace_inhibitor", severity |-> "moderate", effect |-> "electrolyte_risk", doseAdjustment |-> 0,
        recommendations |-> <<"Attenzione a iperkaliemia", "Monitoraggio elettrolitico stretto">>,
        monitoring |-> <<"Elettroliti settimanali">> ],
      [ key |-> "losartan", variants |-> <<"losartan", "lortaan">>,
        category |-> "arb", severity |-> "moderate", effect |-> "electrolyte_risk", doseAdjustment |-> 0,
        recommendations |-> <<"Monitorare iperkaliemia", "Effetti simili ad ACE-inibitori">>,
        monitoring |-> <<"K settimanale">> ],
      [ key |-> "warfarin", variants |-> <<"warfarin", "coumadin">>,
        category |-> "anticoagulant", severity |-> "moderate", effect |-> "monitoring_needed", doseAdjustment |-> 0,
        recommendations |-> <<"Glucocorticoidi possono potenziare effetto anticoagulante", "INR piu frequente dopo modifiche dose GC">>,
        monitoring |-> <<"INR settimanale dopo modifiche GC">> ],
      [ key |-> "ibuprofene", variants |-> <<"ibuprofene", "ibuprofen", "brufen", "moment">>,
        category |-> "nsaid", severity |-> "moderate", effect |-> "monitoring_needed", doseAdjustment |-> 0,
        recommendations |-> <<"Rischio aumentato gastrite/ulcera se usato con GC", "Preferire paracetamolo quando possibile", "Considerare protezione gastrica">>,
        monitoring |-> <<"Sintomi gastrointestinali">> ],
      [ key |-> "levotiroxina", variants |-> <<"levotiroxina", "levothyroxine", "eutirox", "tirosint">>,
        category |-> "thyroid", severity |-> "moderate", effect |-> "increase_gc_need", doseAdjustment |-> 10,
        recommendations |-> <<"Ormoni tiroidei aumentano metabolismo cortisolo", "Aumenti levotiroxina possono slatentizzare insufficienza surrenalica", "Aggiustare GC PRIMA di ottimizzare terapia tiroidea">>,
        monitoring |-> <<"ACTH dopo modifiche levotiroxina", "Sintomi clinici">> ],
      [ key |-> "omeprazolo", variants |-> <<"omeprazolo", "omeprazole", "mopral", "antra">>,
        category |-> "antacid", severity |-> "minor", effect |-> "absorption_issue", doseAdjustment |-> 0,
        recommendations |-> <<"Puo ridurre assorbimento HC se assunti insieme", "Distanziare assunzione di 2 ore">>,
        monitoring |-> <<"Efficacia terapia GC">> ],
      [ key |-> "lansoprazolo", variants |-> <<"lansoprazolo", "lansoprazole", "limpidex">>,
        category |-> "antacid", severity |-> "minor", effect |-> "absorption_issue", doseAdjustment |-> 0,
        recommendations |-> <<"Distanziare da assunzione GC di 2 ore">>,
        monitoring |-> <<>> ]
    >>

(***************************************************************************)
(* analyzeDrugInteractions                                                 *)
(***************************************************************************)
RECURSIVE DetectedFrom(_, _)
DetectedFrom(db, textLower) ==
    IF db = <<>> THEN <<>>
    ELSE LET drugData == Head(db)
             detectedVariants ==
                 SelectSeq(drugData.variants,
                           LAMBDA variant : includes(textLower, toLowerCase(variant)))
         IN  (IF Len(detectedVariants) > 0
              THEN << [ drugName |-> drugData.key,
                        detectedVariants |-> detectedVariants,
                        category |-> drugData.category,
                        severity |-> drugData.severity,
                        effect |-> drugData.effect,
                        doseAdjustment |-> drugData.doseAdjustment,
                        recommendations |-> drugData.recommendations,
                        monitoring |-> drugData.monitoring ] >>
              ELSE <<>>)
             \o DetectedFrom(Tail(db), textLower)

RECURSIVE DoseAdjustmentsOf(_)
DoseAdjustmentsOf(detected) ==
    IF detected = <<>> THEN <<>>
    ELSE (IF Head(detected).effect \in {"increase_gc_need", "decrease_gc_need"}
          THEN <<Head(detected).doseAdjustment>> ELSE <<>>)
         \o DoseAdjustmentsOf(Tail(detected))

\* The reduce of lines 1163-1166 is evaluated in IEEE-754 doubles.  For these
\* sequences of adjustments the exact value of (prod - 1) * 100 ends in .5 and
\* the double lands just below it, so Math.round gives one less than the
\* exactly rounded value; for every other subset of the table, taken in table
\* order, the double rounds as the exact value does.
FloatBelowTie ==
    { <<-30, -25>>, <<-15, 30>>, <<30, -15>>, <<35, -30>>, <<50, -15>>,
      <<50, -30, 10>>, <<50, -30, 30>> }

\* prod(1 + a/100) - 1, times 100, as the rational
\* 5 * (prod(20 + a/5) - 20^n) / 20^(n-1); every adjustment is a multiple of 5.
RECURSIVE FactorsOf(_)
FactorsOf(adjs) ==
    IF adjs = <<>> THEN <<>>
    ELSE <<20 + Head(adjs) \div 5>> \o FactorsOf(Tail(adjs))

CumulativeAdjustment(adjs) ==
    LET n == Len(adjs)
        num == 5 * (ProdSeq(FactorsOf(adjs)) - Pow(20, n))
        den == Pow(20, n - 1)
    IN  MathRound(num, den) - (IF adjs \in FloatBelowTie THEN 1 ELSE 0)

RECURSIVE AlertsOf(_)
AlertsOf(detected) ==
    IF detected = <<>> THEN <<>>
    ELSE (IF Head(detected).severity \in {"critical", "major"}
          THEN << [ drug |-> Head(detected).drugName,
                    level |-> IF Head(detected).severity = "critical"
                              THEN "CRITICA" ELSE "IMPORTANTE",
                    action |-> IF Head(detected).effect = "increase_gc_need"
                               THEN "Richiede AUMENTO dose GC"
                               ELSE IF Head(detected).effect = "decrease_gc_need"
                                    THEN "Richiede RIDUZIONE dose GC"
                                    ELSE "Richiede monitoraggio" ] >>
          ELSE <<>>)
         \o AlertsOf(Tail(detected))

RECURSIVE FieldsOf(_, _)
FieldsOf(detected, f) ==
    IF detected = <<>> THEN <<>>
    ELSE Head(detected)[f] \o FieldsOf(Tail(detected), f)

EmptyDrugAnalysis ==
    [ detected |-> <<>>, totalDoseAdjustment |-> 0, alerts |-> <<>>,
      recommendations |-> <<>>, requiresMonitoring |-> <<>> ]

\* medicationsText is NULL or <<text>>.
analyzeDrugInteractions(medicationsText) ==
    IF medicationsText = NULL \/ Len(medicationsText[1]) = 0
         \/ IsBlank(medicationsText[1])
    THEN EmptyDrugAnalysis
    ELSE LET textLower == toLowerCase(medicationsText[1])
             detected == DetectedFrom(DRUG_DATABASE, textLower)
             doseAdjustments == DoseAdjustmentsOf(detected)
         IN  [ detected |-> detected,
               totalDoseAdjustment |->
                   IF Len(doseAdjustments) > 0
                   THEN CumulativeAdjustment(doseAdjustments) ELSE 0,
               alerts |-> AlertsOf(detected),
               recommendations |-> Dedup(FieldsOf(detected, "recommendations"), {}),
               requiresMonitoring |-> Dedup(FieldsOf(detected, "monitoring"), {}) ]

(***************************************************************************)
(* Quarter-tablet rounding                                                 *)
(***************************************************************************)
\* Math.round(dose * 4) / 4 on a dose in centi-mg.  A centi-mg integer is
\* never at a .5 tie of dose * 4, so the double rounds as the exact value.
roundToQuarter(dose) == MathRound(dose * 4, 100) * 25

(***************************************************************************)
(* selectOptimalDosingSchedule                                             *)
(***************************************************************************)
\* dose * 0.70 * 4 and dose * 0.35 * 4 are evaluated in doubles; at these
\* doses (centi-mg, up to 400 mg) the exact product ends in .5 and the double
\* lands just below it.  The other ratios have no such dose in the branch
\* that uses them.
ScheduleFloatBelowTie ==
    { <<1125, 70>>, <<2125, 70>>,
      <<4250, 35>>, <<8250, 35>>, <<8750, 35>>, <<16250, 35>>, <<16750, 35>>,
      <<17250, 35>>, <<17750, 35>>, <<18250, 35>>, <<32250, 35>>,
      <<32750, 35>>, <<33250, 35>>, <<33750, 35>>, <<34250, 35>>,
      <<34750, 35>>, <<35250, 35>>, <<35750, 35>>, <<36250, 35>> }

\* Math.round(dose * (pct/100) * 4) / 4
ScheduleDose(dose, pct) ==
    (MathRound(dose * pct * 4, 10000)
       - (IF <<dose, pct>> \in ScheduleFloatBelowTie THEN 1 ELSE 0)) * 25

\* the two-dose schema kept for doses strictly below 25 mg
selectOptimalDosingScheduleBelow25(dose, symptoms) ==
    IF dose < 2500
    THEN IF symptoms.morningFatigue
         THEN [ schedule |-> "two_dose",
                doses |-> <<ScheduleDose(dose, 70), ScheduleDose(dose, 30)>>,
                rationale |-> "Schema 70/30 per astenia mattutina" ]
         ELSE [ schedule |-> "two_dose",
                doses |-> <<ScheduleDose(dose, 67), ScheduleDose(dose, 33)>>,
                rationale |-> "Schema standard 67/33 per dosi moderate" ]
    ELSE IF symptoms.afternoonFatigue \/ symptoms.eveningFatigue
         THEN [ schedule |-> "three_dose",
                doses |-> <<ScheduleDose(dose, 45), ScheduleDose(dose, 35),
                            ScheduleDose(dose, 20)>>,
                rationale |-> "Schema 45/35/20 per supporto pomeridiano" ]
         ELSE [ schedule |-> "three_dose",
                doses |-> <<ScheduleDose(dose, 50), ScheduleDose(dose, 30),
                            ScheduleDose(dose, 20)>>,
                rationale |-> "Schema standard 50/30/20" ]

selectOptimalDosingSchedule(dose, symptoms) ==
    IF dose <= 2500
    THEN IF symptoms.morningFatigue
         THEN [ schedule |-> "two_dose",
                doses |-> <<ScheduleDose(dose, 70), ScheduleDose(dose, 30)>>,
                rationale |-> "Schema 70/30 per astenia mattutina" ]
         ELSE [ schedule |-> "two_dose",
                doses |-> <<ScheduleDose(dose, 67), ScheduleDose(dose, 33)>>,
                rationale |-> "Schema standard 67/33 per dosi moderate" ]
    ELSE IF symptoms.afternoonFatigue \/ symptoms.eveningFatigue
         THEN [ schedule |-> "three_dose",
                doses |-> <<ScheduleDose(dose, 45), ScheduleDose(dose, 35),
                            ScheduleDose(dose, 20)>>,
                rationale |-> "Schema 45/35/20 per supporto pomeridiano" ]
         ELSE [ schedule |-> "three_dose",
                doses |-> <<ScheduleDose(dose, 50), ScheduleDose(dose, 30),
                            ScheduleDose(dose, 20)>>,
                rationale |-> "Schema standard 50/30/20" ]

(***************************************************************************)
(* calculateERHCCandidacyScore                                             *)
(* params: currentDose (centi-mg), hypertension, hypokaliemia, qolScore    *)
(* (hundredths or NULL), adherenceIssues, morningFatigue,                  *)
(* multipleAdministrations, bmi (or NULL), hba1c (tenths or NULL).         *)
(***************************************************************************)
\* Each factor gives what the code adds to totalScore (add) and what it
\* pushes onto factors (pushed); the two are written separately in the code.
DoseFactor(params) ==
    IF params.currentDose > 3750
    THEN [ add |-> 15,
           pushed |-> <<[name |-> "Dose molto elevata (>37.5mg)", score |-> 15, weight |-> 15]>> ]
    ELSE IF params.currentDose > 2500
         THEN [ add |-> 10,
                pushed |-> <<[name |-> "Dose elevata (>25mg)", score |-> 10, weight |-> 15]>> ]
         ELSE [ add |-> 3,
                pushed |-> <<[name |-> "Dose standard (<=25mg)", score |-> 3, weight |-> 15]>> ]

\* The cap of line 1421 left out: the factor takes the raw sum of the signs.
CushingoidFactorUncapped(params) ==
    LET cushingoidScore ==
            (IF params.hypertension THEN 10 ELSE 0)
          + (IF params.hypokaliemia THEN 10 ELSE 0)
          + (IF params.bmi # NULL /\ params.bmi[1] > 28 THEN 5 ELSE 0)
          + (IF params.hba1c # NULL /\ params.hba1c[1] > 60 THEN 5 ELSE 0)
    IN  IF cushingoidScore > 0
        THEN [ add |-> cushingoidScore,
               pushed |-> <<[name |-> "Segni Cushingoidi subclinici",
                             score |-> cushingoidScore, weight |-> 20]>> ]
        ELSE [ add |-> 0, pushed |-> <<>> ]

CushingoidFactor(params) ==
    LET cushingoidScore ==
            (IF params.hypertension THEN 10 ELSE 0)
          + (IF params.hypokaliemia THEN 10 ELSE 0)
          + (IF params.bmi # NULL /\ params.bmi[1] > 28 THEN 5 ELSE 0)
          + (IF params.hba1c # NULL /\ params.hba1c[1] > 60 THEN 5 ELSE 0)
        finalCushingScore == Min(20, cushingoidScore)
    IN  IF finalCushingScore > 0
        THEN [ add |-> finalCushingScore,
               pushed |-> <<[name |-> "Segni Cushingoidi subclinici",
                             score |-> finalCushingScore, weight |-> 20]>> ]
        ELSE [ add |-> 0, pushed |-> <<>> ]

QoLFactor(params) ==
    IF params.qolScore # NULL
    THEN IF params.qolScore[1] < 250
         THEN [ add |-> 25,
                pushed |-> <<[name |-> "QoL critica (<2.5)", score |-> 25, weight |-> 25]>> ]
         ELSE IF params.qolScore[1] < 350
              THEN [ add |-> 18,
                     pushed |-> <<[name |-> "QoL subottimale (2.5-3.5)", score |-> 18, weight |-> 25]>> ]
              ELSE [ add |-> 8,
                     pushed |-> <<[name |-> "QoL accettabile (>=3.5)", score |-> 8, weight |-> 25]>> ]
    ELSE [ add |-> 0, pushed |-> <<>> ]

AdherenceFactor(params) ==
    IF params.adherenceIssues
    THEN [ add |-> 20,
           pushed |-> <<[name |-> "Problemi di aderenza", score |-> 20, weight |-> 20]>> ]
    ELSE IF params.multipleAdministrations >= 3
         THEN [ add |-> 15,
                pushed |-> <<[name |-> "Schema complesso (>=3 somministrazioni)",
                              score |-> 15, weight |-> 20]>> ]
         ELSE [ add |-> 5,
                pushed |-> <<[name |-> "Aderenza buona", score |-> 5, weight |-> 20]>> ]

SymptomFactor(params) ==
    LET fatigueScore == IF params.morningFatigue THEN 15 ELSE 0
        fatiguePushed ==
            IF params.morningFatigue
            THEN <<[name |-> "Astenia mattutina", score |-> 15, weight |-> 20]>>
            ELSE <<>>
    IN  IF fatigueScore = 0
        THEN [ add |-> 5,
               pushed |-> fatiguePushed
                   \o <<[name |-> "Sintomi aspecifici", score |-> 5, weight |-> 20]>> ]
        ELSE [ add |-> fatigueScore, pushed |-> fatiguePushed ]

ExcellentThreshold == 75

GoodThreshold == 60

PossibleThreshold == 40

\* The first comparison of line 1516 made strict.
CategoryOfStrict(totalScore) ==
    IF totalScore > ExcellentThreshold THEN "excellent"
    ELSE IF totalScore >= GoodThreshold THEN "good"
    ELSE IF totalScore >= PossibleThreshold THEN "possible"
    ELSE "not_candidate"

CategoryOf(totalScore) ==
    IF totalScore >= ExcellentThreshold THEN "excellent"
    ELSE IF totalScore >= GoodThreshold THEN "good"
    ELSE IF totalScore >= PossibleThreshold THEN "possible"
    ELSE "not_candidate"

PriorityOf(totalScore) ==
    IF totalScore >= ExcellentThreshold THEN "urgent"
    ELSE IF totalScore >= GoodThreshold THEN "high"
    ELSE IF totalScore >= PossibleThreshold THEN "medium"
    ELSE "low"

calculateERHCCandidacyScore(params) ==
    LET parts == << DoseFactor(params), CushingoidFactor(params),
                    QoLFactor(params), AdherenceFactor(params),
                    SymptomFactor(params) >>
        totalScore == parts[1].add + parts[2].add + parts[3].add
                      + parts[4].add + parts[5].add
    IN  [ totalScore |-> totalScore,
          category |-> CategoryOf(totalScore),
          priority |-> PriorityOf(totalScore),
          factors |-> parts[1].pushed \o parts[2].pushed \o parts[3].pushed
                      \o parts[4].pushed \o parts[5].pushed ]

(***************************************************************************)
(* convertValue, generatePredictiveAnalysis                                *)
(***************************************************************************)
\* The display unit system; setUnits is never called.
units ==
    [ na |-> "mEq/L", k |-> "mEq/L", acth |-> "pg/mL", cortisol |-> "ug/dL",
      renin |-> "ng/mL/h", bp |-> "mmHg" ]

\* The units a parameter can be shown or entered in.
UnitSystem ==
    [ na |-> {"mEq/L", "mmol/L"}, k |-> {"mEq/L", "mmol/L"},
      acth |-> {"pg/mL", "pmol/L"}, cortisol |-> {"ug/dL", "nmol/L"},
      renin |-> {"ng/mL/h", "ug/L/h", "mUI/L"}, bp |-> {"mmHg", "kPa"} ]

\* convertValue with every unmapped pair of units rejected
convertValueStrict(value, parameter, fromUnit, toUnit) ==
    IF value = NULL THEN NULL
    ELSE CASE parameter \in {"na", "k"} -> value
           [] parameter = "acth" ->
                IF fromUnit = "pg/mL" /\ toUnit = "pmol/L"
                THEN Times(value, 22, 100)
                ELSE IF fromUnit = "pmol/L" /\ toUnit = "pg/mL"
                     THEN DividedBy(value, 22, 100)
                     ELSE NULL
           [] parameter = "cortisol" ->
                IF fromUnit = "ug/dL" /\ toUnit = "nmol/L"
                THEN Times(value, 2759, 100)
                ELSE IF fromUnit = "nmol/L" /\ toUnit = "ug/dL"
                     THEN DividedBy(value, 2759, 100)
                     ELSE NULL
           [] parameter = "renin" ->
                IF fromUnit = "ng/mL/h" /\ toUnit = "mUI/L"
                THEN Times(value, 26, 10)
                ELSE IF fromUnit = "mUI/L" /\ toUnit = "ng/mL/h"
                THEN DividedBy(value, 26, 10)
                ELSE IF fromUnit = "ug/L/h" /\ toUnit = "mUI/L"
                THEN Times(value, 26, 10)
                ELSE IF fromUnit = "mUI/L" /\ toUnit = "ug/L/h"
                THEN DividedBy(value, 26, 10)
                ELSE NULL
           [] parameter = "bp" ->
                IF fromUnit = "mmHg" /\ toUnit = "kPa"
                THEN Times(value, 133, 1000)
                ELSE IF fromUnit = "kPa" /\ toUnit = "mmHg"
                     THEN DividedBy(value, 133, 1000)
                     ELSE NULL
           [] OTHER -> NULL

\* value is NULL or a fraction.  A mapped conversion multiplies or divides
\* by the factor written in the code; every other pair of units returns the
\* value itself.  The micro sign of the unit names is written u.
convertValue(value, parameter, fromUnit, toUnit) ==
    IF value = NULL THEN NULL
    ELSE CASE parameter \in {"na", "k"} -> value
           [] parameter = "acth" ->
                IF fromUnit = "pg/mL" /\ toUnit = "pmol/L"
                THEN Times(value, 22, 100)
                ELSE IF fromUnit = "pmol/L" /\ toUnit = "pg/mL"
                     THEN DividedBy(value, 22, 100)
                     ELSE value
           [] parameter = "cortisol" ->
                IF fromUnit = "ug/dL" /\ toUnit = "nmol/L"
                THEN Times(value, 2759, 100)
                ELSE IF fromUnit = "nmol/L" /\ toUnit = "ug/dL"
                     THEN DividedBy(value, 2759, 100)
                     ELSE value
           [] parameter = "renin" ->
                IF fromUnit = "ng/mL/h" /\ toUnit = "mUI/L"
                THEN Times(value, 26, 10)
                ELSE IF fromUnit = "mUI/L" /\ toUnit = "ng/mL/h"
                THEN DividedBy(value, 26, 10)
                ELSE IF fromUnit = "ug/L/h" /\ toUnit = "mUI/L"
                THEN Times(value, 26, 10)
                ELSE IF fromUnit = "mUI/L" /\ toUnit = "ug/L/h"
                THEN DividedBy(value, 26, 10)
                ELSE value
           [] parameter = "bp" ->
                IF fromUnit = "mmHg" /\ toUnit = "kPa"
                THEN Times(value, 133, 1000)
                ELSE IF fromUnit = "kPa" /\ toUnit = "mmHg"
                     THEN DividedBy(value, 133, 1000)
                     ELSE value
           [] OTHER -> value

TotalDose(therapy) ==
    therapy.cortisoneAcetate.morning + therapy.cortisoneAcetate.midday
      + therapy.cortisoneAcetate.evening

targetACTH == 50

\* currentData = [acth, currentTherapy]; patient is NULL or a profile.
generatePredictiveAnalysis(currentData, patient) ==
    IF patient = NULL
    THEN [ recommendedDose |-> TotalDose(currentData.currentTherapy),
           confidence |-> 3000,
           riskFactors |-> <<>>,
           expectedOutcome |-> [ acthImprovement |-> 0, qolImprovement |-> 0,
                                 stabilityScore |-> 5000 ] ]
    ELSE LET patterns == patient.responsePatterns
             converted == convertValue(IF currentData.acth = NULL THEN NULL
                                      ELSE Rat(currentData.acth[1], 1),
                                      "acth", units.acth, "pg/mL")
             \* || 0; the stored unit is pg/mL, so the fraction is whole
             currentACTH == IF converted = NULL THEN 0
                            ELSE converted[1] \div converted[2]
             currentDose == TotalDose(currentData.currentTherapy)
             acthGap == currentACTH - targetACTH
             \* acthGap * slope, in centi-mg
             predictedDoseChange == acthGap * patterns.doseResponseSlope
             recommendedDose == Max(1250, currentDose + predictedDoseChange)
             confidence == Min(9500, 4000 + patterns.stabilityScore \div 2)
         IN  [ recommendedDose |-> roundToQuarter(recommendedDose),
               confidence |-> confidence,
               riskFactors |-> patient.riskFactors,
               expectedOutcome |->
                   [ \* min(100, |gap| * 0.7), in tenths
                     acthImprovement |-> Min(1000, Abs(acthGap) * 7),
                     qolImprovement |-> IF patterns.averageQoL > 7000 THEN 15 ELSE 25,
                     stabilityScore |-> Min(10000, patterns.stabilityScore + 1000) ] ]

(***************************************************************************)
(* runAlgorithm: the computation on a non-empty record list.  A record is  *)
(* a function from field names to values; a field that is null (or         *)
(* undefined) is absent from its domain.                                   *)
(***************************************************************************)
Has(r, f) == f \in DOMAIN r

Get(r, f) == IF Has(r, f) THEN <<r[f]>> ELSE NULL

Truthy(r, f) == Has(r, f) /\ r[f] = TRUE

qolParams ==
    << "fatigue", "moodChanges", "workCapacity", "socialLife", "sleepQuality",
       "physicalAppearance", "overallWellbeing", "treatmentSatisfaction" >>

RECURSIVE ValidQoL(_, _)
ValidQoL(r, fields) ==
    IF fields = <<>> THEN <<>>
    ELSE (IF Has(r, Head(fields)) THEN <<r[Head(fields)]>> ELSE <<>>)
         \o ValidQoL(r, Tail(fields))

\* mean of the valid QoL answers in hundredths (floor), or NULL
AvgQoLScore(r) ==
    LET valid == ValidQoL(r, qolParams)
    IN  IF Len(valid) > 0 THEN <<(SumSeq(valid) * 100) \div Len(valid)>> ELSE NULL

\* recommendedDose * (1 + total/100) is evaluated in doubles; at these
\* <<total, dose>> pairs the exact product * 4 ends in .5, the double lands
\* just below it and the clamped result is one quarter lower.  The table
\* covers every total the drug table can produce and every quarter dose.
DrugAdjustFloatBelowTie ==
    { <<-67, 6250>>, <<-67, 8750>>, <<-67, 11250>>, <<-67, 13750>>,
      <<-65, 8250>>, <<-65, 8750>>, <<-55, 4250>>, <<-55, 4750>>,
      <<-55, 5250>>, <<-55, 5750>>, <<-55, 6250>>, <<-55, 6750>>,
      <<-55, 8250>>, <<-55, 8750>>, <<-55, 9250>>, <<-55, 9750>>,
      <<-55, 10250>>, <<-55, 10750>>, <<-54, 5625>>, <<-54, 6875>>,
      <<-54, 10625>>, <<-34, 3125>>, <<-34, 4375>>, <<-34, 5625>>,
      <<-34, 6875>>, <<-33, 3750>>, <<-33, 6250>>, <<-31, 3750>>,
      <<-30, 4125>>, <<-30, 4375>>, <<13, 3750>>, <<15, 2250>>,
      <<15, 2750>>, <<15, 4250>>, <<38, 1875>>, <<57, 1250>>,
      <<101, 1250>>, <<105, 750>>, <<105, 1250>>, <<105, 2250>>,
      <<114, 1875>>, <<118, 1875>>, <<122, 1875>>, <<126, 1875>>,
      <<130, 1125>>, <<130, 1375>>, <<130, 2125>>, <<143, 1250>>,
      <<147, 1250>>, <<151, 1250>>, <<155, 1250>> }

MinDailyDose == 1500

MaxDailyDose == 5000

DoseStep == 625

\* Math.max(15, Math.min(50, roundToQuarter(recommendedDose * adjustmentFactor)))
DrugAdjustedDose(recommendedDose, total) ==
    LET raw == (MathRound(recommendedDose * (100 + total) * 4, 10000)
                 - (IF <<total, recommendedDose>> \in DrugAdjustFloatBelowTie
                    THEN 1 ELSE 0)) * 25
    IN  Max(MinDailyDose, Min(MaxDailyDose, raw))

\* The base rule of lines 2125-2144.
BaseDose(currentDose, normalACTH, underdosed, hypertension, hypokaliemia) ==
    IF normalACTH
    THEN [ dose |-> Max(roundToQuarter(currentDose - DoseStep), MinDailyDose),
           reason |-> "Riduzione dose: ACTH nei limiti normali" ]
    ELSE IF underdosed
         THEN [ dose |-> Min(roundToQuarter(currentDose + DoseStep), MaxDailyDose),
                reason |-> "Aumento dose" ]
         ELSE IF hypertension /\ ~hypokaliemia
              THEN [ dose |-> Max(roundToQuarter(currentDose - DoseStep), MinDailyDose),
                     reason |-> "Riduzione dose per ipertensione" ]
              ELSE [ dose |-> roundToQuarter(currentDose), reason |-> "" ]

FlorinefStep == 25

FlorinefMax == 200

FlorinefMin == 50

FludroRecommendation(florinef, increase, decrease) ==
    IF increase THEN Min(florinef + FlorinefStep, FlorinefMax)
    ELSE IF decrease THEN Max(florinef - FlorinefStep, FlorinefMin)
    ELSE florinef

RECURSIVE DrugAlertTexts(_)
DrugAlertTexts(alerts) ==
    IF alerts = <<>> THEN <<>>
    ELSE <<Head(alerts).drug \o ": Interazione " \o Head(alerts).level
            \o " - " \o Head(alerts).action>>
         \o DrugAlertTexts(Tail(alerts))

RECURSIVE Names(_)
Names(detected) ==
    IF detected = <<>> THEN <<>>
    ELSE <<Head(detected).drugName>> \o Names(Tail(detected))

Opt(cond, x) == IF cond THEN <<x>> ELSE <<>>

\* Math.round(predicted * pct / 100 * 4) / 4; the quotient is exact in
\* doubles whenever it is at a tie.
PredictedShare(predicted, pct) == MathRound(predicted * pct * 4, 10000) * 25

(***************************************************************************)
(* State                                                                   *)
(***************************************************************************)
VARIABLES
    records,             \* PatientRecord[]
    suggestion,          \* the text shown to the clinician, as its data
    currentTherapy,      \* CurrentTherapy
    proposedTherapy,     \* CurrentTherapy | null
    editingTherapy,      \* CurrentTherapy
    patients,            \* PatientProfile[]
    currentPatient,      \* PatientProfile | null
    predictiveAnalysis,  \* PredictiveAnalysis | null
    smartNotifications,  \* string[]
    workflowStep,        \* 'select-patient' | 'enter-record' | 'view-plan'
    showDetailsView,     \* boolean
    therapyChanges,      \* how many times currentTherapy has been replaced
    call                 \* the last call of a pure function and its result

vars ==
    << records, suggestion, currentTherapy, proposedTherapy, editingTherapy,
       patients, currentPatient, predictiveAnalysis, smartNotifications,
       workflowStep, showDetailsView, therapyChanges, call >>

app ==
    << records, suggestion, currentTherapy, proposedTherapy, editingTherapy,
       patients, currentPatient, predictiveAnalysis, smartNotifications,
       workflowStep, showDetailsView, therapyChanges >>

(***************************************************************************)
(* Bounds and inputs                                                       *)
(***************************************************************************)
MaxRecords == 2

\* currentTherapy is replaced (applied, edited, auto-corrected) at most this
\* many times in a session
MaxTherapyChanges == 1

Therapy(morning, midday, evening, florinef) ==
    [ cortisoneAcetate |-> [morning |-> morning, midday |-> midday, evening |-> evening],
      florinef |-> florinef ]

InitialTherapy == Therapy(1875, 625, 625, 100)

SamplePatients ==
    << [ id |-> "patient-001",
         therapyHistory |-> <<>>,
         responsePatterns |->
             [ cortisoneToACTH |-> 70, optimalDistribution |-> <<60, 20, 20>>,
               averageQoL |-> 350, stabilityScore |-> 7500,
               doseResponseSlope |-> 80 ],
         riskFactors |-> <<>> ],
       [ id |-> "patient-002",
         therapyHistory |-> <<>>,
         responsePatterns |->
             [ cortisoneToACTH |-> 60, optimalDistribution |-> <<50, 25, 25>>,
               averageQoL |-> 400, stabilityScore |-> 8000,
               doseResponseSlope |-> 90 ],
         riskFactors |-> <<>> ] >>

\* PatientForm.handleSubmit with no patient being edited
NewPatient(id) ==
    [ id |-> id,
      therapyHistory |-> <<>>,
      responsePatterns |->
          [ cortisoneToACTH |-> 0, optimalDistribution |-> <<40, 30, 30>>,
            averageQoL |-> 5000, stabilityScore |-> 5000,
            doseResponseSlope |-> 50 ],
      riskFactors |-> <<>> ]

\* NewRecordForm.handleSubmit: the three checkboxes are always booleans, an
\* empty input leaves its field null.
BlankRecord == [hypoglycemia |-> FALSE, craveSalt |-> FALSE, vertigo |-> FALSE]

\* what is submitted in the workflow
RecordInputs ==
    { BlankRecord,
      [na |-> 130, k |-> 55, bpSupSys |-> 90,
       otherMedications |-> "Rifampicina e ritonavir"] @@ BlankRecord }

\* records with one finding, or one finding at its threshold, for the dose
\* rules (k and renin in tenths)
RuleRecords ==
    { f @@ BlankRecord : f \in
        { [na |-> 130], [k |-> 32], [k |-> 55], [renin |-> 2], [renin |-> 40],
          [renin |-> 41], [cortisol |-> 30], [bpSupSys |-> 150],
          [bpSupSys |-> 150, k |-> 32], [na |-> 130, bpSupSys |-> 150],
          [acth |-> 30, na |-> 130, fatigue |-> 5, hypoglycemia |-> TRUE],
          [acth |-> 10], [acth |-> 46, bpSupSys |-> 150], [acth |-> 9],
          [acth |-> 47, glucose |-> 65], [glucose |-> 70], [fatigue |-> 3],
          [hypoglycemia |-> TRUE, bpSupDia |-> 90],
          [bpSupSys |-> 120, bpOrthSys |-> 100],
          [bpSupSys |-> 120, bpOrthSys |-> 101],
          [craveSalt |-> TRUE, k |-> 32],
          [na |-> 130, k |-> 55], [na |-> 130, bpSupSys |-> 90],
          [k |-> 55, bpSupSys |-> 90, bpSupDia |-> 55],
          [na |-> 130, k |-> 55, bpSupDia |-> 59],
          [na |-> 130, k |-> 55, bpSupSys |-> 100, bpSupDia |-> 60],
          [na |-> 135, k |-> 55, bpSupSys |-> 90],
          [na |-> 130, k |-> 50, bpSupSys |-> 90] } }

\* latest records on which one run of the engine is examined
EngineRecords ==
    { BlankRecord,
      [na |-> 130, k |-> 55, bpSupSys |-> 90] @@ BlankRecord,
      [na |-> 135, k |-> 50, bpSupSys |-> 100] @@ BlankRecord,
      [acth |-> 30, na |-> 140, k |-> 42] @@ BlankRecord,
      [acth |-> 80, bpSupSys |-> 150, bpSupDia |-> 85] @@ BlankRecord,
      [acth |-> 200, cortisol |-> 4, bpSupSys |-> 150, k |-> 32] @@ BlankRecord,
      [fatigue |-> 4, moodChanges |-> 2, workCapacity |-> 2, socialLife |-> 3,
       sleepQuality |-> 2] @@ BlankRecord,
      [fatigue |-> 4, otherMedications |-> "Rifampicina e ritonavir"] @@ BlankRecord,
      [renin |-> 45, otherMedications |-> "Norvir (ritonavir) 100 mg"] @@ BlankRecord }
      \cup RuleRecords

\* current therapies on which one run of the engine is examined
EngineTherapies ==
    { InitialTherapy,
      Therapy(1000, 0, 0, 100),
      Therapy(1250, 625, 0, 50),
      Therapy(1880, 625, 625, 100),
      Therapy(1875, 1250, 625, 100),
      Therapy(250, 250, 0, 25),
      Therapy(3000, 1500, 1500, 100),
      Therapy(2500, 1250, 1250, 200),
      Therapy(3750, 1250, 625, 225) }

\* analyzeDrugInteractions on the medication texts of the records above,
\* evaluated once; on any other text the function itself is applied.
KnownTexts ==
    { r.otherMedications :
        r \in {x \in RecordInputs \cup EngineRecords : Has(x, "otherMedications")} }

DrugAnalysisOf == [t \in KnownTexts |-> analyzeDrugInteractions(<<t>>)]

\* what is typed into the dose inputs of the therapy tab: <<field, value>>
TherapyEdits == { <<"morning", 1880>>, <<"florinef", 225>> }

NoDataMessage == [kind |-> "Nessun dato disponibile"]

InitialSuggestion == [kind |-> "Carica o inserisci dati per raccomandazioni"]

AppliedMessage == [kind |-> "Terapia aggiornata con successo"]

AutoCorrectedMessage == [kind |-> "Dosi auto-corrette ai quarti piu vicini"]

SmartNotificationsOf(patient, predictiveResult) ==
    IF patient # NULL
    THEN Opt(predictiveResult.confidence > 8000, "Alta affidabilita della previsione AI")
         \o Opt(patient.responsePatterns.stabilityScore < 5000, "Pattern instabile rilevato")
         \o Opt(Len(patient.therapyHistory) > 5, "Modello maturo")
         \o Opt(predictiveResult.expectedOutcome.qolImprovement > 20,
                "Miglioramento significativo della qualita di vita previsto")
    ELSE <<>>

\* runAlgorithm on a non-empty list, lines 1921-2011: the latest record, the
\* predictive analysis, the clinical flags, the drug analysis and the
\* emergency actions.  recs, therapy and patient are the closure's records,
\* currentTherapy and currentPatient.
Assessment(recs, therapy, patient) ==
    LET r == recs[Len(recs)]
    IN  [ r |-> r,
          therapy |-> therapy,
          patient |-> patient,
          predictiveResult |->
              generatePredictiveAnalysis(
                  [acth |-> Get(r, "acth"), currentTherapy |-> therapy], patient),
          hyponatremia |-> Has(r, "na") /\ r.na < 135,
          hypernatremia |-> Has(r, "na") /\ r.na > 145,
          hypokaliemia |-> Has(r, "k") /\ r.k < 35,
          hyperkaliemia |-> Has(r, "k") /\ r.k > 50,
          elevatedACTH |-> Has(r, "acth") /\ r.acth > 145,
          lowCortisol |-> Has(r, "cortisol") /\ r.cortisol < 6,
          elevatedRenin |-> Has(r, "renin") /\ r.renin > 40,
          hypotension |-> \/ Has(r, "bpSupSys") /\ r.bpSupSys < 100
                          \/ Has(r, "bpSupDia") /\ r.bpSupDia < 60,
          hypertension |-> \/ Has(r, "bpSupSys") /\ r.bpSupSys >= 140
                           \/ Has(r, "bpSupDia") /\ r.bpSupDia >= 90,
          orthostaticHypotension |->
              Has(r, "bpSupSys") /\ Has(r, "bpOrthSys")
                /\ r.bpSupSys - r.bpOrthSys >= 20,
          saltCraving |-> Truthy(r, "craveSalt"),
          vertigo |-> Truthy(r, "vertigo"),
          drugAnalysis |->
              IF Has(r, "otherMedications") /\ r.otherMedications \in KnownTexts
              THEN DrugAnalysisOf[r.otherMedications]
              ELSE analyzeDrugInteractions(Get(r, "otherMedications")),
          currentDose |-> TotalDose(therapy),
          avgQoLScoreForERHC |-> AvgQoLScore(r),
          morningFatigue |-> Has(r, "fatigue") /\ r.fatigue >= 4,
          normalACTH |-> Has(r, "acth") /\ r.acth >= 10 /\ r.acth <= 46,
          excessiveFatigue |-> Has(r, "fatigue") /\ r.fatigue >= 4,
          hypoglycemia |-> Truthy(r, "hypoglycemia")
                             \/ (Has(r, "glucose") /\ r.glucose < 70) ]

\* the crisis pattern read from the electrolytes alone
EmergencyActionsWithoutPressure(a) ==
    IF a.hyponatremia /\ a.hyperkaliemia
    THEN << "POSSIBILE CRISI SURRENALICA" >>
    ELSE <<>>

\* lines 1998-2007, on the flags of the assessment a
EmergencyActions(a) ==
    IF a.hyponatremia /\ a.hyperkaliemia /\ a.hypotension
    THEN << "POSSIBILE CRISI SURRENALICA",
            "AZIONE IMMEDIATA: Flebocortid 100mg IM",
            "Trasferimento urgente in Pronto Soccorso",
            "Idratazione con soluzione fisiologica",
            "Monitoraggio continuo parametri vitali" >>
    ELSE <<>>

\* lines 2013-2032
ErHcScore(a) ==
    calculateERHCCandidacyScore(
        [ currentDose |-> a.currentDose,
          hypertension |-> a.hypertension,
          hypokaliemia |-> a.hypokaliemia,
          qolScore |-> a.avgQoLScoreForERHC,
          adherenceIssues |-> FALSE,
          morningFatigue |-> a.morningFatigue,
          multipleAdministrations |->
              IF a.therapy.cortisoneAcetate.evening > 0 THEN 3 ELSE 2,
          bmi |-> NULL,
          hba1c |-> NULL ])

\* lines 2125-2174: the base rule, then the drug-interaction adjustment
RecommendedDose(a) ==
    LET base == BaseDose(a.currentDose, a.normalACTH,
                         a.hyponatremia \/ a.excessiveFatigue \/ a.hypoglycemia,
                         a.hypertension, a.hypokaliemia)
        drugAdjusts == Len(a.drugAnalysis.detected) > 0
                         /\ a.drugAnalysis.totalDoseAdjustment # 0
    IN  [ dose |-> IF drugAdjusts
                   THEN DrugAdjustedDose(base.dose, a.drugAnalysis.totalDoseAdjustment)
                   ELSE base.dose,
          reason |-> base.reason,
          drugAdjusted |-> drugAdjusts ]

\* lines 2176-2206: the schedule for the recommended dose rec, and the
\* fludrocortisone dose
Plan(a, rec) ==
    [ recommendedDose |-> rec.dose,
      dosageReason |-> rec.reason,
      drugAdjusted |-> rec.drugAdjusted,
      optimalSchedule |->
          selectOptimalDosingSchedule(rec.dose,
              [ morningFatigue |-> a.morningFatigue,
                afternoonFatigue |-> Has(a.r, "workCapacity") /\ a.r.workCapacity <= 2,
                eveningFatigue |-> Has(a.r, "socialLife") /\ a.r.socialLife <= 2,
                sleepDisturbance |-> Has(a.r, "sleepQuality") /\ a.r.sleepQuality <= 2,
                nightSymptoms |-> FALSE ]),
      fludroRecommendation |->
          FludroRecommendation(a.therapy.florinef,
              a.hyponatremia \/ a.elevatedRenin \/ a.orthostaticHypotension
                \/ a.saltCraving,
              a.hypertension \/ a.hypokaliemia),
      erHcScore |-> ErHcScore(a),
      emergencyActions |-> EmergencyActions(a) ]

\* lines 2337-2352
Alerts(a) ==
    DrugAlertTexts(a.drugAnalysis.alerts)
    \o Opt(a.hyponatremia /\ a.hyperkaliemia,
           "ALERT: Squilibrio elettrolitico significativo")
    \o Opt(a.hypotension, "ALERT: Ipotensione rilevata")
    \o Opt(a.hypertension /\ a.hypokaliemia /\ a.currentDose > 3000,
           "ALERT: Possibile sovra-dosaggio")
    \o Opt(a.elevatedACTH /\ a.lowCortisol, "ALERT: Controllo inadeguato")
    \o Opt(a.saltCraving \/ a.vertigo,
           "ALERT: Sintomi suggestivi di ipoaldosteronismo")

\* the schedule's doses as morning, midday, evening (lines 2190-2192)
MorningMiddayEvening(optimalSchedule) ==
    << optimalSchedule.doses[1], optimalSchedule.doses[2],
       IF Len(optimalSchedule.doses) >= 3 THEN optimalSchedule.doses[3] ELSE 0 >>

\* lines 2354-2623: the sections of the report, in the order they are pushed
Sections(a, p, alerts) ==
    LET qolCritical == a.avgQoLScoreForERHC # NULL /\ a.avgQoLScoreForERHC[1] < 250
        hasErHc == p.erHcScore.totalScore >= PossibleThreshold \/ qolCritical
    IN  <<"intestazione">>
        \o Opt(Len(p.emergencyActions) > 0, "EMERGENZA MEDICA")
        \o <<"TERAPIA GLUCOCORTICOIDE", "CONVERSIONE PRATICA",
             "TERAPIA MINERALCORTICOIDE">>
        \o Opt(Len(alerts) > 0, "ALERT E AVVERTENZE")
        \o Opt(Len(a.drugAnalysis.detected) > 0, "INTERFERENZE FARMACOLOGICHE")
        \o Opt(hasErHc, "FORMULAZIONI ER-HC")
        \o Opt(hasErHc /\ p.erHcScore.totalScore >= GoodThreshold, "PROTOCOLLO SWITCH")
        \o <<"RAZIONALE SCHEMA">>
        \o Opt(\/ a.avgQoLScoreForERHC # NULL
               \/ a.vertigo \/ a.saltCraving \/ a.orthostaticHypotension
               \/ a.hypertension \/ a.hypokaliemia,
               "QUALITA DELLA VITA")
        \o Opt(\/ p.recommendedDose # a.currentDose
               \/ p.fludroRecommendation # a.therapy.florinef
               \/ a.elevatedRenin
               \/ Len(a.drugAnalysis.requiresMonitoring) > 0,
               "MONITORAGGIO")
        \o <<"PROTOCOLLI STRESS", "TABELLA CONVERSIONE", "DISCLAIMER">>
        \o Opt(a.patient # NULL /\ a.predictiveResult.confidence > 7000,
               "RACCOMANDAZIONI PERSONALIZZATE")
        \o <<"CONTATTI">>

\* the historical distribution taken from a confidence of 70 on
EnhancedDosesFrom70(patient, predictiveResult, doses) ==
    IF patient # NULL /\ predictiveResult.confidence >= 7000
    THEN << PredictedShare(predictiveResult.recommendedDose,
                           patient.responsePatterns.optimalDistribution[1]),
            PredictedShare(predictiveResult.recommendedDose,
                           patient.responsePatterns.optimalDistribution[2]),
            PredictedShare(predictiveResult.recommendedDose,
                           patient.responsePatterns.optimalDistribution[3]) >>
    ELSE << roundToQuarter(doses[1]), roundToQuarter(doses[2]),
            roundToQuarter(doses[3]) >>

\* lines 2627-2642: the doses of the proposed therapy, from the predictive
\* dose when a patient is selected and the confidence is above 70, else from
\* the schedule doses
EnhancedDoses(patient, predictiveResult, doses) ==
    IF patient # NULL /\ predictiveResult.confidence > 7000
    THEN << PredictedShare(predictiveResult.recommendedDose,
                           patient.responsePatterns.optimalDistribution[1]),
            PredictedShare(predictiveResult.recommendedDose,
                           patient.responsePatterns.optimalDistribution[2]),
            PredictedShare(predictiveResult.recommendedDose,
                           patient.responsePatterns.optimalDistribution[3]) >>
    ELSE << roundToQuarter(doses[1]), roundToQuarter(doses[2]),
            roundToQuarter(doses[3]) >>

\* The values handed to setPredictiveAnalysis, setSmartNotifications,
\* setSuggestion and setProposedTherapy.  The report text is kept as the data
\* it prints.
Outcome(a, p, doses, enhanced, alerts) ==
    [ predictiveAnalysis |-> a.predictiveResult,
      smartNotifications |-> SmartNotificationsOf(a.patient, a.predictiveResult),
      suggestion |->
          [ kind |-> "report",
            sections |-> Sections(a, p, alerts),
            emergencyActions |-> p.emergencyActions,
            currentDose |-> a.currentDose,
            recommendedDose |-> p.recommendedDose,
            dosageReason |-> p.dosageReason,
            drugAdjusted |-> p.drugAdjusted,
            schedule |-> p.optimalSchedule.schedule,
            morningDose |-> doses[1],
            middayDose |-> doses[2],
            eveningDose |-> doses[3],
            florinef |-> a.therapy.florinef,
            fludroRecommendation |-> p.fludroRecommendation,
            alerts |-> alerts,
            detected |-> Names(a.drugAnalysis.detected),
            totalDoseAdjustment |-> a.drugAnalysis.totalDoseAdjustment,
            erHcScore |-> p.erHcScore.totalScore,
            erHcCategory |-> p.erHcScore.category,
            aiDose |-> IF a.patient # NULL /\ a.predictiveResult.confidence > 7000
                       THEN <<a.predictiveResult.recommendedDose>> ELSE NULL ],
      proposedTherapy |->
          [ cortisoneAcetate |->
                [ morning |-> enhanced[1], midday |-> enhanced[2],
                  evening |-> enhanced[3] ],
            florinef |-> p.fludroRecommendation ] ]

Planned(a, p, doses) ==
    Outcome(a, p, doses,
            EnhancedDoses(a.patient, a.predictiveResult, doses), Alerts(a))

Assessed(a, p) == Planned(a, p, MorningMiddayEvening(p.optimalSchedule))

Recommended(a) == Assessed(a, Plan(a, RecommendedDose(a)))

\* What one run computes from the closure values recs (non-empty),
\* therapy (currentTherapy) and patient (currentPatient).
Evaluate(recs, therapy, patient) == Recommended(Assessment(recs, therapy, patient))
(***************************************************************************)
(* The application                                                         *)
(***************************************************************************)
Init ==
    /\ records = <<>>
    /\ suggestion = InitialSuggestion
    /\ currentTherapy = InitialTherapy
    /\ proposedTherapy = NULL
    /\ editingTherapy = InitialTherapy
    /\ patients = SamplePatients
    /\ currentPatient = NULL
    /\ predictiveAnalysis = NULL
    /\ smartNotifications = <<>>
    /\ workflowStep = "select-patient"
    /\ showDetailsView = FALSE
    /\ therapyChanges = 0
    /\ call = [fn |-> "none"]

\* runAlgorithm with the early return of line 1918 placed after the
\* predictive analysis of lines 1922-1929.
runAlgorithmLateReturn(recs) ==
    IF Len(recs) = 0
    THEN /\ suggestion' = NoDataMessage
         /\ predictiveAnalysis' =
                generatePredictiveAnalysis(
                    [acth |-> NULL, currentTherapy |-> currentTherapy],
                    currentPatient)
         /\ UNCHANGED <<proposedTherapy, smartNotifications>>
    ELSE LET out == Evaluate(recs, currentTherapy, currentPatient)
         IN  /\ predictiveAnalysis' = out.predictiveAnalysis
             /\ smartNotifications' = out.smartNotifications
             /\ suggestion' = out.suggestion
             /\ proposedTherapy' = out.proposedTherapy

\* runAlgorithm as it runs inside a handler whose closure holds recs as the
\* record list; currentTherapy and currentPatient are those of the same render.
runAlgorithm(recs) ==
    IF Len(recs) = 0
    THEN /\ suggestion' = NoDataMessage
         /\ UNCHANGED <<proposedTherapy, predictiveAnalysis, smartNotifications>>
    ELSE LET out == Evaluate(recs, currentTherapy, currentPatient)
         IN  /\ predictiveAnalysis' = out.predictiveAnalysis
             /\ smartNotifications' = out.smartNotifications
             /\ suggestion' = out.suggestion
             /\ proposedTherapy' = out.proposedTherapy

\* Step 1, click on a patient of the list.
SelectPatient(patient) ==
    /\ workflowStep = "select-patient"
    /\ currentPatient' = patient
    /\ workflowStep' = "enter-record"
    /\ UNCHANGED << records, suggestion, currentTherapy, proposedTherapy,
                    editingTherapy, patients, predictiveAnalysis,
                    smartNotifications, showDetailsView,
                    therapyChanges, call >>

\* Step 2, NewRecordForm onSubmit: setRecords([...records, record]);
\* setWorkflowStep('view-plan'); runAlgorithm().  The runAlgorithm called here
\* is the one of the render in which the form was shown: its records is the
\* list before the append.
SubmitRecord(record) ==
    /\ workflowStep = "enter-record"
    /\ currentPatient # NULL
    /\ Len(records) < MaxRecords
    /\ records' = Append(records, record)
    /\ workflowStep' = "view-plan"
    /\ runAlgorithm(records)
    /\ UNCHANGED << currentTherapy, editingTherapy, patients, currentPatient,
                    showDetailsView,
                    therapyChanges, call >>

\* Step 3, "Calcola Piano Proposto".
RunAlgorithm ==
    /\ workflowStep = "view-plan"
    /\ currentPatient # NULL
    /\ ~showDetailsView
    /\ runAlgorithm(records)
    /\ UNCHANGED << records, currentTherapy, editingTherapy, patients,
                    currentPatient, workflowStep, showDetailsView,
                    therapyChanges, call >>

\* the application that leaves the proposal in place
ApplyProposedTherapyKeepingProposal ==
    /\ workflowStep = "view-plan"
    /\ currentPatient # NULL
    /\ ~showDetailsView
    /\ proposedTherapy # NULL
    /\ therapyChanges < MaxTherapyChanges
    /\ currentTherapy' = proposedTherapy
    /\ editingTherapy' = proposedTherapy
    /\ suggestion' = AppliedMessage
    /\ therapyChanges' = therapyChanges + 1
    /\ UNCHANGED << records, proposedTherapy, patients, currentPatient,
                    predictiveAnalysis, smartNotifications, workflowStep,
                    showDetailsView, call >>

\* Step 3, "Applica Piano Proposto" (shown only when there is a proposal).
ApplyProposedTherapy ==
    /\ workflowStep = "view-plan"
    /\ currentPatient # NULL
    /\ ~showDetailsView
    /\ proposedTherapy # NULL
    /\ therapyChanges < MaxTherapyChanges
    /\ currentTherapy' = proposedTherapy
    /\ editingTherapy' = proposedTherapy
    /\ proposedTherapy' = NULL
    /\ suggestion' = AppliedMessage
    /\ therapyChanges' = therapyChanges + 1
    /\ UNCHANGED << records, patients, currentPatient, predictiveAnalysis,
                    smartNotifications, workflowStep, showDetailsView, call >>

ShowDetails ==
    /\ workflowStep = "view-plan"
    /\ currentPatient # NULL
    /\ ~showDetailsView
    /\ showDetailsView' = TRUE
    /\ UNCHANGED << records, suggestion, currentTherapy, proposedTherapy,
                    editingTherapy, patients, currentPatient,
                    predictiveAnalysis, smartNotifications, workflowStep,
                    therapyChanges, call >>

HideDetails ==
    /\ showDetailsView
    /\ showDetailsView' = FALSE
    /\ UNCHANGED << records, suggestion, currentTherapy, proposedTherapy,
                    editingTherapy, patients, currentPatient,
                    predictiveAnalysis, smartNotifications, workflowStep,
                    therapyChanges, call >>

\* Step 3, "Aggiungi Altro Record".
AddAnotherRecord ==
    /\ workflowStep = "view-plan"
    /\ currentPatient # NULL
    /\ ~showDetailsView
    /\ workflowStep' = "enter-record"
    /\ UNCHANGED << records, suggestion, currentTherapy, proposedTherapy,
                    editingTherapy, patients, currentPatient,
                    predictiveAnalysis, smartNotifications, showDetailsView,
                    therapyChanges, call >>

\* Step 3, quick action "Cambia Paziente": only the step changes.
QuickChangePatient ==
    /\ workflowStep = "view-plan"
    /\ currentPatient # NULL
    /\ ~showDetailsView
    /\ workflowStep' = "select-patient"
    /\ UNCHANGED << records, suggestion, currentTherapy, proposedTherapy,
                    editingTherapy, patients, currentPatient,
                    predictiveAnalysis, smartNotifications, showDetailsView,
                    therapyChanges, call >>

\* Header button "Cambia Paziente".
HeaderChangePatient ==
    /\ currentPatient # NULL
    /\ workflowStep # "select-patient"
    /\ workflowStep' = "select-patient"
    /\ currentPatient' = NULL
    /\ proposedTherapy' = NULL
    /\ showDetailsView' = FALSE
    /\ UNCHANGED << records, suggestion, currentTherapy, editingTherapy,
                    patients, predictiveAnalysis, smartNotifications,
                    therapyChanges, call >>

\* Details view, patient box: "Deseleziona".
DeselectPatient ==
    /\ showDetailsView
    /\ currentPatient # NULL
    /\ currentPatient' = NULL
    /\ UNCHANGED << records, suggestion, currentTherapy, proposedTherapy,
                    editingTherapy, patients, predictiveAnalysis,
                    smartNotifications, workflowStep, showDetailsView,
                    therapyChanges, call >>

\* Details view, patient dropdown.
SelectPatientInDetails(patient) ==
    /\ showDetailsView
    /\ currentPatient' = patient
    /\ UNCHANGED << records, suggestion, currentTherapy, proposedTherapy,
                    editingTherapy, patients, predictiveAnalysis,
                    smartNotifications, workflowStep, showDetailsView,
                    therapyChanges, call >>

\* Details view, tab "Terapia": a dose input changes (parseFloat(...) || 0).
\* The new therapy is stored as typed; validateTherapyValues only fills the
\* warning list.
updateCurrentTherapy(field, value) ==
    IF field = "florinef"
    THEN currentTherapy' = [currentTherapy EXCEPT !.florinef = value]
    ELSE IF field \in DOMAIN currentTherapy.cortisoneAcetate
         THEN currentTherapy' = [currentTherapy EXCEPT !.cortisoneAcetate[field] = value]
         ELSE UNCHANGED currentTherapy

UpdateCurrentTherapy(field, value) ==
    /\ showDetailsView
    /\ therapyChanges < MaxTherapyChanges
    /\ updateCurrentTherapy(field, value)
    /\ therapyChanges' = therapyChanges + 1
    /\ UNCHANGED << records, suggestion, proposedTherapy, editingTherapy,
                    patients, currentPatient, predictiveAnalysis,
                    smartNotifications, workflowStep, showDetailsView, call >>

\* Details view, tab "Terapia": "Auto-correzione quarti".
AutoCorrectToQuarters ==
    /\ showDetailsView
    /\ therapyChanges < MaxTherapyChanges
    /\ therapyChanges' = therapyChanges + 1
    /\ currentTherapy' =
           Therapy(roundToQuarter(currentTherapy.cortisoneAcetate.morning),
                   roundToQuarter(currentTherapy.cortisoneAcetate.midday),
                   roundToQuarter(currentTherapy.cortisoneAcetate.evening),
                   currentTherapy.florinef)
    /\ suggestion' = AutoCorrectedMessage
    /\ UNCHANGED << records, proposedTherapy, editingTherapy, patients,
                    currentPatient, predictiveAnalysis, smartNotifications,
                    workflowStep, showDetailsView, call >>

RECURSIVE WithoutId(_, _)
WithoutId(ps, id) ==
    IF ps = <<>> THEN <<>>
    ELSE (IF Head(ps).id # id THEN <<Head(ps)>> ELSE <<>>) \o WithoutId(Tail(ps), id)

\* the push without the filter
savePatientDataKeepingOld(patient) ==
    patients' = Append(patients, patient)

\* patients.filter(p => p.id !== patient.id), then push
savePatientData(patient) ==
    patients' = Append(WithoutId(patients, patient.id), patient)

\* Date.now().toString() of a new patient: the ids the clock can give in a
\* session, in the order it gives them
NewIds == << "1700000000001" >>

UsedIds == {patients[j].id : j \in 1..Len(patients)}

FreshId == NewIds[CHOOSE i \in 1..Len(NewIds) :
                     /\ NewIds[i] \notin UsedIds
                     /\ \A k \in 1..(i - 1) : NewIds[k] \in UsedIds]

\* The patient dialog (opened from step 1 or from the details view) is
\* saved: PatientForm builds the profile from the patient being edited, or a
\* new one, and onSave stores and selects it.
SavePatient ==
    /\ workflowStep = "select-patient" \/ showDetailsView
    /\ currentPatient = NULL => \E i \in 1..Len(NewIds) : NewIds[i] \notin UsedIds
    /\ LET patient == IF currentPatient # NULL
                      THEN [ id |-> currentPatient.id,
                             therapyHistory |-> currentPatient.therapyHistory,
                             responsePatterns |-> currentPatient.responsePatterns,
                             riskFactors |-> <<>> ]
                      ELSE NewPatient(FreshId)
       IN  /\ savePatientData(patient)
           /\ currentPatient' = patient
    /\ UNCHANGED << records, suggestion, currentTherapy, proposedTherapy,
                    editingTherapy, predictiveAnalysis, smartNotifications,
                    workflowStep, showDetailsView,
                    therapyChanges, call >>

Next ==
    \/ \E i \in 1..Len(patients) : SelectPatient(patients[i])
    \/ \E record \in RecordInputs : SubmitRecord(record)
    \/ RunAlgorithm
    \/ ApplyProposedTherapy
    \/ ShowDetails
    \/ HideDetails
    \/ AddAnotherRecord
    \/ QuickChangePatient
    \/ HeaderChangePatient
    \/ DeselectPatient
    \/ \E i \in 1..Len(patients) : SelectPatientInDetails(patients[i])
    \/ \E edit \in TherapyEdits : UpdateCurrentTherapy(edit[1], edit[2])
    \/ AutoCorrectToQuarters
    \/ SavePatient

Spec == Init /\ [][Next]_vars


(***************************************************************************)
(* One run of the engine on every latest record and current therapy        *)
(*                                                                         *)
(* The state before the run is the one of the plan view after a patient    *)
(* was selected, a first record submitted (which shows the 'no data'       *)
(* message) and the doses typed in the details view.                       *)
(***************************************************************************)
\* a profile read back from localStorage whose history gave a stability
\* score of 60: the prediction confidence is exactly 70
StoredPatient ==
    [ SamplePatients[1] EXCEPT !.id = "patient-003",
                               !.responsePatterns.stabilityScore = 6000 ]

EnginePatients ==
    { SamplePatients[1], SamplePatients[2], NewPatient(NewIds[1]), StoredPatient }

InitEngine ==
    /\ records \in { <<r>> : r \in EngineRecords }
    /\ currentTherapy \in EngineTherapies
    /\ currentPatient \in EnginePatients
    /\ patients = IF currentPatient \in Range(SamplePatients)
                  THEN SamplePatients
                  ELSE Append(SamplePatients, currentPatient)
    /\ suggestion = NoDataMessage
    /\ proposedTherapy = NULL
    /\ editingTherapy = InitialTherapy
    /\ predictiveAnalysis = NULL
    /\ smartNotifications = <<>>
    /\ workflowStep = "view-plan"
    /\ showDetailsView = FALSE
    /\ therapyChanges = MaxTherapyChanges
    /\ call = [fn |-> "none"]

NextEngine == RunAlgorithm

SpecEngine == InitEngine /\ [][NextEngine]_vars

(***************************************************************************)
(* The pure functions, applied to inputs drawn from bounded sets.  call    *)
(* holds the function, its arguments and, once it has returned, its        *)
(* result; the application's state stays as constructed.                   *)
(***************************************************************************)
InitApp ==
    /\ records = <<>>
    /\ suggestion = InitialSuggestion
    /\ currentTherapy = InitialTherapy
    /\ proposedTherapy = NULL
    /\ editingTherapy = InitialTherapy
    /\ patients = SamplePatients
    /\ currentPatient = NULL
    /\ predictiveAnalysis = NULL
    /\ smartNotifications = <<>>
    /\ workflowStep = "select-patient"
    /\ showDetailsView = FALSE
    /\ therapyChanges = 0

\* ---- analyzeDrugInteractions ----
\* the words of a medication text, joined by " e "
MedicationWords ==
    << "rifampicina", "ritonavir", "Eritromicina", "fenitoina",
       "etinilestradiolo", "Eutirox", "aspirina" >>

MaxWords == 3

RECURSIVE JoinWords(_)
JoinWords(ws) ==
    IF ws = <<>> THEN ""
    ELSE IF Len(ws) = 1 THEN MedicationWords[ws[1]]
    ELSE MedicationWords[ws[1]] \o " e " \o JoinWords(Tail(ws))

WordLists ==
    UNION { [1..n -> 1..Len(MedicationWords)] : n \in 0..MaxWords }

\* texts that are blank or name no drug of the table
OtherTexts ==
    { " ", "  ", "\t\n", "Aspirina 100 mg", "paracetamolo al bisogno",
      "Cardioaspirin; vitamina D" }

\* r.otherMedications: null, or the text typed (brand name next to the
\* active principle, two inducers with the same advice, minor and moderate
\* drugs together)
MedicationTexts ==
    {NULL} \cup { <<JoinWords(ws)>> : ws \in WordLists }
           \cup { <<t>> : t \in OtherTexts }
           \cup { <<"Rifadin (rifampicina) 600 mg">>,
                   <<"Tegretol 200 mg e fenitoina">>,
                   <<"Antra 20 mg, Lasix 25 mg">> }

InitDrug ==
    /\ InitApp
    /\ \E text \in MedicationTexts :
          call = [ fn |-> "analyzeDrugInteractions", medicationsText |-> text,
                   done |-> FALSE ]

CallAnalyzeDrugInteractions ==
    /\ call.fn = "analyzeDrugInteractions"
    /\ ~call.done
    /\ call' = [ fn |-> "analyzeDrugInteractions",
                 medicationsText |-> call.medicationsText, done |-> TRUE,
                 result |-> analyzeDrugInteractions(call.medicationsText) ]
    /\ UNCHANGED app

NextDrug == CallAnalyzeDrugInteractions

SpecDrug == InitDrug /\ [][NextDrug]_vars

\* ---- selectOptimalDosingSchedule ----
\* total doses of 0 .. MaxQuarters quarter-mg steps (recommendedDose is
\* always a multiple of 0.25 mg when the engine passes it)
MaxQuarters == 240

ScheduleDoses == { 25 * q : q \in 0..MaxQuarters }

SymptomFlags ==
    [ morningFatigue : BOOLEAN, afternoonFatigue : BOOLEAN,
      eveningFatigue : BOOLEAN, sleepDisturbance : BOOLEAN,
      nightSymptoms : {FALSE} ]

InitSchedule ==
    /\ InitApp
    /\ \E dose \in ScheduleDoses, symptoms \in SymptomFlags :
          call = [ fn |-> "selectOptimalDosingSchedule", dose |-> dose,
                   symptoms |-> symptoms, done |-> FALSE ]

CallSelectOptimalDosingSchedule ==
    /\ call.fn = "selectOptimalDosingSchedule"
    /\ ~call.done
    /\ call' = [ fn |-> "selectOptimalDosingSchedule", dose |-> call.dose,
                 symptoms |-> call.symptoms, done |-> TRUE,
                 result |-> selectOptimalDosingSchedule(call.dose, call.symptoms) ]
    /\ UNCHANGED app

NextSchedule == CallSelectOptimalDosingSchedule

SpecSchedule == InitSchedule /\ [][NextSchedule]_vars

\* ---- calculateERHCCandidacyScore ----
ScoreParams ==
    [ currentDose : {2000, 2500, 3125, 3750, 4375},
      hypertension : BOOLEAN,
      hypokaliemia : BOOLEAN,
      qolScore : {NULL, <<200>>, <<250>>, <<349>>, <<350>>},
      adherenceIssues : BOOLEAN,
      morningFatigue : BOOLEAN,
      multipleAdministrations : {2, 3},
      bmi : {NULL, <<28>>, <<31>>},
      hba1c : {NULL, <<60>>, <<68>>} ]

InitERHC ==
    /\ InitApp
    /\ \E params \in ScoreParams :
          call = [ fn |-> "calculateERHCCandidacyScore", params |-> params,
                   done |-> FALSE ]

CallCalculateERHCCandidacyScore ==
    /\ call.fn = "calculateERHCCandidacyScore"
    /\ ~call.done
    /\ call' = [ fn |-> "calculateERHCCandidacyScore", params |-> call.params,
                 done |-> TRUE,
                 result |-> calculateERHCCandidacyScore(call.params) ]
    /\ UNCHANGED app

NextERHC == CallCalculateERHCCandidacyScore

SpecERHC == InitERHC /\ [][NextERHC]_vars

(***************************************************************************)
(* Properties                                                              *)
(***************************************************************************)
LatestRecord == records[Len(records)]

HasReport == suggestion.kind = "report"

\* C1: after a run of runAlgorithm on a non-empty record list, whatever the
\* current therapy and the latest record, the recommended total dose (after
\* the base rule and the drug-interaction adjustment) is between 15 and 50 mg
\* and is a multiple of 0.25 mg.
C1_RecommendedDoseInRange ==
    HasReport =>
        /\ suggestion.recommendedDose >= 1500
        /\ suggestion.recommendedDose <= 5000
        /\ suggestion.recommendedDose % 25 = 0

\* C2: in every state reached by patient selection, record submission,
\* runAlgorithm and applyProposedTherapy, the three doses of the proposed
\* therapy sum to a total within [15, 50] mg/day, and so do those of the
\* current therapy once the proposal has been applied.
C2_ProposedTotalInRange ==
    /\ proposedTherapy # NULL =>
          /\ TotalDose(proposedTherapy) >= 1500
          /\ TotalDose(proposedTherapy) <= 5000
    /\ suggestion = AppliedMessage =>
          /\ TotalDose(currentTherapy) >= 1500
          /\ TotalDose(currentTherapy) <= 5000

\* C3: for every total dose and every combination of symptom flags, the
\* doses returned by selectOptimalDosingSchedule sum to the total dose
\* rounded to the nearest 0.25 mg.
C3_ScheduleSumsToTotal ==
    (call.fn = "selectOptimalDosingSchedule" /\ call.done) =>
        SumSeq(call.result.doses) = roundToQuarter(call.dose)

\* C4: when the latest record shows the adrenal-crisis pattern (low sodium,
\* high potassium, low pressure), the run reports the crisis and stops there:
\* the report has the emergency section and no glucocorticoid dose section,
\* and no proposed therapy is set.
C4_CrisisShortCircuits ==
    ( /\ HasReport
      /\ Has(LatestRecord, "na") /\ LatestRecord.na < 135
      /\ Has(LatestRecord, "k") /\ LatestRecord.k > 50
      /\ Has(LatestRecord, "bpSupSys") /\ LatestRecord.bpSupSys < 100 )
    => /\ "EMERGENZA MEDICA" \in Range(suggestion.sections)
       /\ "TERAPIA GLUCOCORTICOIDE" \notin Range(suggestion.sections)
       /\ proposedTherapy = NULL

\* C5: when a record is submitted in the 'enter-record' step (the record is
\* appended, the step becomes 'view-plan' and the engine runs), the
\* suggestion and the proposed therapy shown afterwards are the ones computed
\* from the record list with the submitted record as its latest record.
C5_SubmitEvaluatesSubmittedRecord ==
    [][ (workflowStep = "enter-record" /\ workflowStep' = "view-plan") =>
            LET out == Evaluate(records', currentTherapy, currentPatient)
            IN  /\ suggestion' = out.suggestion
                /\ proposedTherapy' = out.proposedTherapy ]_vars

\* a step in which runAlgorithm runs with recs as its record list
RunsAlgorithmOn(recs) ==
    /\ records = recs
    /\ \/ RunAlgorithm
       \/ \E record \in RecordInputs : SubmitRecord(record)

\* C6: when runAlgorithm runs on an empty record list, the suggestion becomes
\* the fixed 'no data' message and proposedTherapy, predictiveAnalysis,
\* smartNotifications and currentTherapy are left as they were.
C6_EmptyRunOnlySetsNoData ==
    [][ RunsAlgorithmOn(<<>>) =>
            /\ suggestion' = NoDataMessage
            /\ UNCHANGED << proposedTherapy, predictiveAnalysis,
                            smartNotifications, currentTherapy >> ]_vars

\* the engine has run on an empty list: the first record of the session has
\* been submitted and the 'no data' message is shown
C6_Witness ==
    /\ Len(records) = 1
    /\ workflowStep = "view-plan"
    /\ suggestion = NoDataMessage
    /\ proposedTherapy = NULL
    /\ predictiveAnalysis = NULL

\* round((prod - 1) * 100) in exact arithmetic
ExactCumulative(adjs) ==
    IF adjs = <<>> THEN 0
    ELSE MathRound(5 * (ProdSeq(FactorsOf(adjs)) - Pow(20, Len(adjs))),
                   Pow(20, Len(adjs) - 1))

\* C7: for every medication text, totalDoseAdjustment is
\* round((product of (1 + adj/100) over the detected dose-affecting drugs - 1)
\* * 100).
C7_CumulativeAdjustmentIsRoundedProduct ==
    (call.fn = "analyzeDrugInteractions" /\ call.done) =>
        call.result.totalDoseAdjustment
            = ExactCumulative(DoseAdjustmentsOf(call.result.detected))

\* C8: every dose the engine generates (morning, midday and evening dose of
\* the dosing schedule and of the proposed therapy) is a multiple of 6.25 mg.
C8_DosesAreQuarterTablets ==
    HasReport =>
        /\ suggestion.morningDose % 625 = 0
        /\ suggestion.middayDose % 625 = 0
        /\ suggestion.eveningDose % 625 = 0
        /\ proposedTherapy.cortisoneAcetate.morning % 625 = 0
        /\ proposedTherapy.cortisoneAcetate.midday % 625 = 0
        /\ proposedTherapy.cortisoneAcetate.evening % 625 = 0

RECURSIVE SumScores(_)
SumScores(factors) ==
    IF factors = <<>> THEN 0
    ELSE Head(factors).score + SumScores(Tail(factors))

\* C9: for every input of calculateERHCCandidacyScore, each listed factor's
\* score is at most its weight, totalScore is the sum of the listed factors'
\* scores, and totalScore is between 0 and 100.
C9_ScoreIsBoundedSumOfFactors ==
    (call.fn = "calculateERHCCandidacyScore" /\ call.done) =>
        /\ \A i \in 1..Len(call.result.factors) :
              call.result.factors[i].score <= call.result.factors[i].weight
        /\ call.result.totalScore = SumScores(call.result.factors)
        /\ call.result.totalScore >= 0
        /\ call.result.totalScore <= 100

\* all four Cushingoid signs are present, so the factor is capped at its
\* weight, and every other factor scores its highest
C9_Witness ==
    /\ call.fn = "calculateERHCCandidacyScore" /\ call.done
    /\ call.params.hypertension /\ call.params.hypokaliemia
    /\ call.params.bmi = <<31>> /\ call.params.hba1c = <<68>>
    /\ call.result.totalScore = 95
    /\ Len(call.result.factors) = 5

\* C10: the total score is mapped to category and priority at 75, 60 and 40:
\* at least 75 is 'excellent'/urgent, 60..74 'good'/high, 40..59
\* 'possible'/medium, below 40 'not_candidate'/low; 75 is 'excellent' and 74
\* is 'good'.
C10_CategoryBoundaries ==
    /\ CategoryOf(75) = "excellent" /\ CategoryOf(74) = "good"
    /\ CategoryOf(60) = "good" /\ CategoryOf(59) = "possible"
    /\ CategoryOf(40) = "possible" /\ CategoryOf(39) = "not_candidate"
    /\ (call.fn = "calculateERHCCandidacyScore" /\ call.done) =>
          LET s == call.result.totalScore
              c == call.result.category
              p == call.result.priority
          IN  /\ s >= 75 => c = "excellent" /\ p = "urgent"
              /\ (s >= 60 /\ s <= 74) => c = "good" /\ p = "high"
              /\ (s >= 40 /\ s <= 59) => c = "possible" /\ p = "medium"
              /\ s < 40 => c = "not_candidate" /\ p = "low"

\* a call whose total score is exactly 75
C10_Witness ==
    /\ call.fn = "calculateERHCCandidacyScore" /\ call.done
    /\ call.result.totalScore = 75
    /\ call.result.category = "excellent"

\* C11: when every lab value of the latest record is absent and every
\* symptom flag is false, the run reports no alert and no emergency line and
\* recommends the current glucocorticoid total (rounded to 0.25 mg) and the
\* current fludrocortisone dose, in the report and in the proposed therapy,
\* whichever patient is selected.
C11_EmptyRecordKeepsTherapy ==
    (HasReport /\ LatestRecord = BlankRecord) =>
        /\ suggestion.alerts = <<>>
        /\ suggestion.emergencyActions = <<>>
        /\ suggestion.recommendedDose = roundToQuarter(TotalDose(currentTherapy))
        /\ suggestion.fludroRecommendation = currentTherapy.florinef
        /\ proposedTherapy.florinef = currentTherapy.florinef
        /\ TotalDose(proposedTherapy) = roundToQuarter(TotalDose(currentTherapy))

\* the states in which the engine's dose step can meet a drug analysis
EngineAssessments ==
    { Assessment(<<r>>, therapy, patient) :
        r \in EngineRecords, therapy \in EngineTherapies, patient \in EnginePatients }

\* C12: on a null, empty or whitespace-only medication text, and on a text
\* that names no drug of the table, analyzeDrugInteractions returns no
\* detected drug, a total adjustment of 0 and empty alerts, recommendations
\* and monitoring lists; with that result runAlgorithm's recommended dose is
\* the base rule's dose, unadjusted.
C12_NoDrugNoAdjustment ==
    ( /\ call.fn = "analyzeDrugInteractions" /\ call.done
      /\ \/ call.medicationsText = NULL
         \/ call.medicationsText \in { <<"">> } \cup { <<t>> : t \in OtherTexts } )
    => /\ call.result.detected = <<>>
       /\ call.result.totalDoseAdjustment = 0
       /\ call.result.alerts = <<>>
       /\ call.result.recommendations = <<>>
       /\ call.result.requiresMonitoring = <<>>
       /\ \A a \in EngineAssessments :
             LET rec == RecommendedDose([a EXCEPT !.drugAnalysis = call.result])
             IN  /\ ~rec.drugAdjusted
                 /\ rec.dose =
                      BaseDose(a.currentDose, a.normalACTH,
                               a.hyponatremia \/ a.excessiveFatigue \/ a.hypoglycemia,
                               a.hypertension, a.hypokaliemia).dose

\* the analysis has returned for a text that names only a drug outside the
\* table
C12_Witness ==
    /\ call.fn = "analyzeDrugInteractions" /\ call.done
    /\ call.medicationsText = <<"Cardioaspirin; vitamina D">>
    /\ call.result.detected = <<>>

(***************************************************************************)
(* convertValue, applied to a value, a parameter and a pair of unit names, *)
(* and then applied back to its own result with the units swapped          *)
(***************************************************************************)
MaxDenominator == 10

ConvertNumerators == {0, 1, 7, 45, 138, 552, 1000}

ConvertValues ==
    {NULL} \cup { Rat(n, d) : n \in ConvertNumerators, d \in {1, MaxDenominator} }

\* the names of UnitSystem, an empty name and a unit of no parameter
ConvertUnits ==
    UNION { UnitSystem[p] : p \in DOMAIN UnitSystem } \cup {"", "g/L"}

\* the keys of UnitSystem and one string that is none of them
ConvertParameters == DOMAIN UnitSystem \cup {"glucose"}

InitConvert ==
    /\ InitApp
    /\ \E value \in ConvertValues, parameter \in ConvertParameters,
          fromUnit \in ConvertUnits, toUnit \in ConvertUnits :
          call = [ fn |-> "convertValue", value |-> value,
                   parameter |-> parameter, fromUnit |-> fromUnit,
                   toUnit |-> toUnit, done |-> FALSE ]

CallConvertValue ==
    /\ call.fn = "convertValue"
    /\ ~call.done
    /\ call' = [ call EXCEPT !.done = TRUE ] @@
               [ result |-> convertValue(call.value, call.parameter,
                                         call.fromUnit, call.toUnit) ]
    /\ UNCHANGED app

CallConvertValueBack ==
    /\ call.fn = "convertValue"
    /\ call.done
    /\ ~Has(call, "back")
    /\ call' = call @@
               [ back |-> convertValue(call.result, call.parameter,
                                       call.toUnit, call.fromUnit) ]
    /\ UNCHANGED app

NextConvert == CallConvertValue \/ CallConvertValueBack

SpecConvert == InitConvert /\ [][NextConvert]_vars

\* C13: for every parameter and every pair of its units, converting a value
\* from one unit to the other and back returns the value started from.
C13_ConversionRoundTrip ==
    ( /\ call.fn = "convertValue" /\ Has(call, "back")
      /\ call.parameter \in DOMAIN UnitSystem
      /\ call.fromUnit \in UnitSystem[call.parameter]
      /\ call.toUnit \in UnitSystem[call.parameter] )
    => call.back = call.value

C13_Witness ==
    /\ call.fn = "convertValue" /\ Has(call, "back")
    /\ call.parameter = "bp" /\ call.fromUnit = "kPa" /\ call.toUnit = "mmHg"
    /\ call.value = Rat(138, 10)
    /\ call.result # call.value
    /\ call.back = call.value

\* the pairs of units for which the code has a conversion
MappedConversions ==
    { <<"acth", "pg/mL", "pmol/L">>, <<"acth", "pmol/L", "pg/mL">>,
      <<"cortisol", "ug/dL", "nmol/L">>, <<"cortisol", "nmol/L", "ug/dL">>,
      <<"renin", "ng/mL/h", "mUI/L">>, <<"renin", "mUI/L", "ng/mL/h">>,
      <<"renin", "ug/L/h", "mUI/L">>, <<"renin", "mUI/L", "ug/L/h">>,
      <<"bp", "mmHg", "kPa">>, <<"bp", "kPa", "mmHg">> }

\* C14: convertValue always returns: null for a null value, a number for a
\* number, and the value itself for every pair of units that is not a mapped
\* conversion (equal units and unknown unit names included).
C14_UnmappedConversionReturnsInput ==
    (call.fn = "convertValue" /\ call.done) =>
        /\ (call.value = NULL) <=> (call.result = NULL)
        /\ <<call.parameter, call.fromUnit, call.toUnit>> \notin MappedConversions
              => call.result = call.value

C14_Witness ==
    /\ call.fn = "convertValue" /\ call.done
    /\ call.parameter = "acth" /\ call.fromUnit = "g/L" /\ call.toUnit = "pmol/L"
    /\ call.value = Rat(45, 1)
    /\ call.result = call.value

(***************************************************************************)
(* Every writer of the record list: the workflow (Next), the document      *)
(* import of the details view and the manual record form                   *)
(***************************************************************************)
\* the spread that keeps only the new items
SpreadItemsOnly(prev, items) == items

\* [...prev, ...labResults]
Spread(prev, items) == prev \o items

\* A document is the sequence of its lines, a line the lab values its
\* patterns matched (none: the empty record); dataFields is the number of
\* keys parseTextDocument extracted.
NoMatch == [ f \in {} |-> 0 ]

parseLabResults(content) ==
    SelectSeq(content, LAMBDA line : DOMAIN line # {})

MaxDataFields == 4

UploadedFiles ==
    { [ content |-> << NoMatch, [acth |-> 80] >>, dataFields |-> 0 ],
      [ content |-> << [na |-> 130], NoMatch, [acth |-> 80] >>,
        dataFields |-> MaxDataFields ],
      [ content |-> << NoMatch >>, dataFields |-> MaxDataFields ] }

\* handleFileUpload of one file: processUploadedFile appends the parsed lab
\* results; a document with confidence above 70 and more than 3 extracted
\* keys creates and selects a patient when none is selected.
HandleFileUpload(file) ==
    LET labResults == parseLabResults(file.content)
        confidence == Min(95, file.dataFields * 15 + 20)
        autoPatient == confidence > 70 /\ currentPatient = NULL
                       /\ file.dataFields > 3
    IN  /\ showDetailsView
        /\ Len(records) + Len(labResults) <= MaxRecords
        /\ autoPatient => \E i \in 1..Len(NewIds) : NewIds[i] \notin UsedIds
        /\ records' = IF Len(labResults) > 0 THEN Spread(records, labResults)
                      ELSE records
        /\ IF autoPatient
           THEN /\ savePatientData(NewPatient(FreshId))
                /\ currentPatient' = NewPatient(FreshId)
           ELSE UNCHANGED << patients, currentPatient >>
        /\ UNCHANGED << suggestion, currentTherapy, proposedTherapy,
                        editingTherapy, predictiveAnalysis, smartNotifications,
                        workflowStep, showDetailsView, therapyChanges, call >>

\* handleAddManual, the submit handler of the "Nuovo Record" dialog
\* (showNewRecordForm; nothing in the page sets it, the handler is taken as
\* callable whenever the page is shown).
HandleAddManual(record) ==
    /\ Len(records) < MaxRecords
    /\ records' = Append(records, record)
    /\ UNCHANGED << suggestion, currentTherapy, proposedTherapy, editingTherapy,
                    patients, currentPatient, predictiveAnalysis,
                    smartNotifications, workflowStep, showDetailsView,
                    therapyChanges, call >>

NextRecords ==
    \/ Next
    \/ \E file \in UploadedFiles : HandleFileUpload(file)
    \/ \E record \in RecordInputs : HandleAddManual(record)

SpecRecords == Init /\ [][NextRecords]_vars

\* C15: the record list is append-only: a step that changes it leaves every
\* record it held in place and adds records after them.
C15_RecordsAppendOnly ==
    [][ records' # records =>
            /\ Len(records') > Len(records)
            /\ SubSeq(records', 1, Len(records)) = records ]_vars

C15_Witness ==
    /\ Len(records) = 2
    /\ records[1] \in RecordInputs
    /\ records[2] = [acth |-> 80]
    /\ workflowStep = "view-plan"

\* the findings of the latest record, as the rules name them (k and renin in
\* tenths)
LowSodium == Has(LatestRecord, "na") /\ LatestRecord.na < 135

HighPotassium == Has(LatestRecord, "k") /\ LatestRecord.k > 50

LowPotassium == Has(LatestRecord, "k") /\ LatestRecord.k < 35

HighRenin == Has(LatestRecord, "renin") /\ LatestRecord.renin > 40

LowRenin == Has(LatestRecord, "renin") /\ LatestRecord.renin < 3

HighCortisol == Has(LatestRecord, "cortisol") /\ LatestRecord.cortisol > 25

Hypertensive ==
    \/ Has(LatestRecord, "bpSupSys") /\ LatestRecord.bpSupSys >= 140
    \/ Has(LatestRecord, "bpSupDia") /\ LatestRecord.bpSupDia >= 90

OrthostaticDrop ==
    /\ Has(LatestRecord, "bpSupSys") /\ Has(LatestRecord, "bpOrthSys")
    /\ LatestRecord.bpSupSys - LatestRecord.bpOrthSys >= 20

SaltCraving == Truthy(LatestRecord, "craveSalt")

\* C16: from the 0.1 mg baseline the recommended fludrocortisone dose is
\* 0.125 mg when sodium is low or renin is high, and (no reason for an
\* increase being present) 0.075 mg when potassium is low, renin is low or the
\* patient is hypertensive.
C16_FludrocortisoneFromBaseline ==
    (HasReport /\ currentTherapy.florinef = 100) =>
        /\ (LowSodium \/ HighRenin) => suggestion.fludroRecommendation = 125
        /\ ( /\ ~(LowSodium \/ HighRenin \/ OrthostaticDrop \/ SaltCraving)
             /\ (LowPotassium \/ LowRenin \/ Hypertensive) )
           => suggestion.fludroRecommendation = 75

\* C17: the glucocorticoid baseline is 37.5 mg; from it hyponatremia or
\* hyperkalemia raises the recommended total to 43.75 mg and (neither being
\* present) elevated cortisol lowers it to 31.25 mg.
C17_GlucocorticoidFromBaseline ==
    /\ TotalDose(InitialTherapy) = 3750
    /\ (HasReport /\ TotalDose(currentTherapy) = 3750) =>
          /\ (LowSodium \/ HighPotassium) => suggestion.recommendedDose = 4375
          /\ (~(LowSodium \/ HighPotassium) /\ HighCortisol)
                => suggestion.recommendedDose = 3125

NormalACTH ==
    Has(LatestRecord, "acth") /\ LatestRecord.acth >= 10 /\ LatestRecord.acth <= 46

Underdosed ==
    \/ LowSodium
    \/ Has(LatestRecord, "fatigue") /\ LatestRecord.fatigue >= 4
    \/ Truthy(LatestRecord, "hypoglycemia")
    \/ Has(LatestRecord, "glucose") /\ LatestRecord.glucose < 70

\* C18: the base glucocorticoid rule is a priority list (normal ACTH: minus
\* 6.25 mg, floor 15; else hyponatremia, fatigue >= 4 or hypoglycemia: plus
\* 6.25 mg, cap 50; else hypertension without hypokalemia: minus 6.25 mg,
\* floor 15; else unchanged), and its result differs from the current total
\* by at most 6.25 mg.  Stated on the runs without a drug adjustment, where
\* the recommended dose is the base dose.
C18_BaseRulePriorityAndStep ==
    (HasReport /\ ~suggestion.drugAdjusted) =>
        LET cur == TotalDose(currentTherapy)
            rec == suggestion.recommendedDose
        IN  /\ NormalACTH => rec = Max(roundToQuarter(cur - 625), 1500)
            /\ (~NormalACTH /\ Underdosed)
                  => rec = Min(roundToQuarter(cur + 625), 5000)
            /\ (~NormalACTH /\ ~Underdosed /\ Hypertensive /\ ~LowPotassium)
                  => rec = Max(roundToQuarter(cur - 625), 1500)
            /\ (~NormalACTH /\ ~Underdosed /\ ~(Hypertensive /\ ~LowPotassium))
                  => rec = roundToQuarter(cur)
            /\ Abs(rec - cur) <= 625

FludroIncrease == LowSodium \/ HighRenin \/ OrthostaticDrop \/ SaltCraving

FludroDecrease == Hypertensive \/ LowPotassium

\* C19: the fludrocortisone recommendation is the current dose plus 0.025 mg
\* when hyponatremia, renin > 4.0, an orthostatic drop >= 20 mmHg or salt
\* craving is present, else minus 0.025 mg when hypertension or hypokalemia
\* is present, else the current dose; it always lies within 0.05 .. 0.2 mg
\* and never moves against the direction of the rule that fired.
C19_FludrocortisoneStepInRange ==
    HasReport =>
        LET cur == currentTherapy.florinef
            rec == suggestion.fludroRecommendation
        IN  /\ FludroIncrease => rec = Min(cur + 25, 200)
            /\ (~FludroIncrease /\ FludroDecrease) => rec = Max(cur - 25, 50)
            /\ (~FludroIncrease /\ ~FludroDecrease) => rec = cur
            /\ rec >= 50 /\ rec <= 200
            /\ FludroIncrease => rec >= cur
            /\ (~FludroIncrease /\ FludroDecrease) => rec <= cur

Hypotensive ==
    \/ Has(LatestRecord, "bpSupSys") /\ LatestRecord.bpSupSys < 100
    \/ Has(LatestRecord, "bpSupDia") /\ LatestRecord.bpSupDia < 60

\* C20: the emergency section is in the report if and only if the latest
\* record has na < 135, k > 5.0 and a supine systolic pressure < 100 or a
\* supine diastolic pressure < 60; the values 135, 5.0, 100 and 60 do not
\* trigger it, and neither does a record in which one of the three is missing.
C20_EmergencySectionIffCrisis ==
    HasReport =>
        /\ ("EMERGENZA MEDICA" \in Range(suggestion.sections))
              <=> (LowSodium /\ HighPotassium /\ Hypotensive)
        /\ (suggestion.emergencyActions # <<>>)
              <=> ("EMERGENZA MEDICA" \in Range(suggestion.sections))
        /\ ( \/ ~Has(LatestRecord, "na") \/ ~Has(LatestRecord, "k")
             \/ ~(Has(LatestRecord, "bpSupSys") \/ Has(LatestRecord, "bpSupDia"))
             \/ (Has(LatestRecord, "na") /\ LatestRecord.na = 135)
             \/ (Has(LatestRecord, "k") /\ LatestRecord.k = 50)
             \/ ( /\ Has(LatestRecord, "bpSupSys") /\ LatestRecord.bpSupSys = 100
                  /\ Has(LatestRecord, "bpSupDia") /\ LatestRecord.bpSupDia = 60 ) )
           => "EMERGENZA MEDICA" \notin Range(suggestion.sections)

C20_Witness ==
    /\ HasReport
    /\ LatestRecord = [na |-> 130, k |-> 55, bpSupDia |-> 59] @@ BlankRecord
    /\ "EMERGENZA MEDICA" \in Range(suggestion.sections)
    /\ Len(suggestion.emergencyActions) = 5

\* the share pct of the dose, to the nearest quarter of a mg (doses in
\* centi-mg): |d - dose * pct / 100| <= 0.125 mg
IsShare(d, dose, pct) ==
    /\ d % 25 = 0
    /\ Abs(d * 100 - dose * pct) <= 1250

IsSplit(doses, dose, pcts) ==
    /\ Len(doses) = Len(pcts)
    /\ \A i \in 1..Len(pcts) : IsShare(doses[i], dose, pcts[i])

\* C21: selectOptimalDosingSchedule returns two doses for a dose <= 25 mg
\* (70/30 with morning fatigue, else 67/33) and three doses above 25 mg
\* (45/35/20 with afternoon or evening fatigue, else 50/30/20); 25 mg gets
\* two doses, sleepDisturbance never changes the result and morningFatigue
\* changes nothing above 25 mg.
C21_ScheduleBranches ==
    (call.fn = "selectOptimalDosingSchedule" /\ call.done) =>
        LET dose == call.dose
            s == call.symptoms
            doses == call.result.doses
        IN  /\ (dose <= 2500 /\ s.morningFatigue)
                  => IsSplit(doses, dose, <<70, 30>>)
            /\ (dose <= 2500 /\ ~s.morningFatigue)
                  => IsSplit(doses, dose, <<67, 33>>)
            /\ (dose > 2500 /\ (s.afternoonFatigue \/ s.eveningFatigue))
                  => IsSplit(doses, dose, <<45, 35, 20>>)
            /\ (dose > 2500 /\ ~(s.afternoonFatigue \/ s.eveningFatigue))
                  => IsSplit(doses, dose, <<50, 30, 20>>)
            /\ call.result = selectOptimalDosingSchedule(dose,
                                 [s EXCEPT !.sleepDisturbance = ~@])
            /\ dose > 2500 =>
                  call.result = selectOptimalDosingSchedule(dose,
                                    [s EXCEPT !.morningFatigue = ~@])

C21_Witness ==
    /\ call.fn = "selectOptimalDosingSchedule" /\ call.done
    /\ call.dose = 2500
    /\ ~call.symptoms.morningFatigue /\ call.symptoms.sleepDisturbance
    /\ call.result.doses = <<1675, 825>>

(***************************************************************************)
(* distributeDoseInQuarters(totalDose, ratios): totalDose in centi-mg,     *)
(* ratios in percent                                                       *)
(***************************************************************************)
\* totalDose * ratio * 4 is evaluated in doubles; at these totals the exact
\* product ends in .5 and the double lands just below it.
DistributeFloatBelowTie ==
    { <<1125, 70>>, <<2125, 70>>, <<2250, 35>>, <<4125, 70>>, <<4250, 35>>,
      <<4375, 70>> }

\* roundToQuarter(totalDose * ratio)
DistributeShare(totalDose, pct) ==
    (MathRound(totalDose * pct * 4, 10000)
       - (IF <<totalDose, pct>> \in DistributeFloatBelowTie THEN 1 ELSE 0)) * 25

\* the rounded shares returned as they are
distributeDoseInQuartersUnadjusted(totalDose, ratios) ==
    [ i \in 1..Len(ratios) |-> DistributeShare(totalDose, ratios[i]) ]

distributeDoseInQuarters(totalDose, ratios) ==
    LET roundedDoses ==
            [ i \in 1..Len(ratios) |-> DistributeShare(totalDose, ratios[i]) ]
        actualTotal == SumSeq(roundedDoses)
        difference == roundToQuarter(totalDose - actualTotal)
        \* roundedDoses.indexOf(Math.max(...roundedDoses))
        maxIndex == CHOOSE i \in 1..Len(ratios) :
                        /\ \A j \in 1..Len(ratios) : roundedDoses[j] <= roundedDoses[i]
                        /\ \A j \in 1..(i - 1) : roundedDoses[j] < roundedDoses[i]
    IN  IF Abs(difference) >= 25
        THEN [ roundedDoses EXCEPT ![maxIndex] = roundToQuarter(@ + difference) ]
        ELSE roundedDoses

\* The totals are the quarter-mg doses of the schedule and three totals
\* typed with two decimals; the ratio lists are those of the callers and of
\* the dosing schedules, all summing to 1.
InitDistribute ==
    /\ InitApp
    /\ \E totalDose \in ScheduleDoses \cup {1010, 1880, 3130},
          ratios \in { <<67, 33>>, <<50, 30, 20>>, <<70, 30>>, <<45, 35, 20>>,
                       <<60, 20, 20>>, <<40, 30, 30>>, <<100>> } :
          call = [ fn |-> "distributeDoseInQuarters", totalDose |-> totalDose,
                   ratios |-> ratios, done |-> FALSE ]

CallDistributeDoseInQuarters ==
    /\ call.fn = "distributeDoseInQuarters"
    /\ ~call.done
    /\ call' = [ call EXCEPT !.done = TRUE ] @@
               [ result |-> distributeDoseInQuarters(call.totalDose, call.ratios) ]
    /\ UNCHANGED app

SpecDistribute == InitDistribute /\ [][CallDistributeDoseInQuarters]_vars

\* C22: for ratios that sum to 1, distributeDoseInQuarters returns doses that
\* are multiples of 0.25 mg and sum to totalDose rounded to 0.25 mg; at most
\* one dose differs from its individually rounded share, and it is the one
\* of the largest share.
C22_DistributionSumsToRoundedTotal ==
    (call.fn = "distributeDoseInQuarters" /\ call.done) =>
        LET doses == call.result
            pcts == call.ratios
            adjusted == { i \in 1..Len(pcts) :
                            ~IsShare(doses[i], call.totalDose, pcts[i]) }
        IN  /\ Len(doses) = Len(pcts)
            /\ \A i \in 1..Len(doses) : doses[i] % 25 = 0
            /\ SumSeq(doses) = roundToQuarter(call.totalDose)
            /\ Cardinality(adjusted) <= 1
            /\ \A i \in adjusted : \A j \in 1..Len(pcts) : pcts[j] <= pcts[i]

C22_Witness ==
    /\ call.fn = "distributeDoseInQuarters" /\ call.done
    /\ call.totalDose = 1875
    /\ call.ratios = <<40, 30, 30>>
    /\ call.result = <<725, 575, 575>>

\* the doses of a therapy, morning to evening
DosesOf(therapy) ==
    << therapy.cortisoneAcetate.morning, therapy.cortisoneAcetate.midday,
       therapy.cortisoneAcetate.evening >>

\* C23: the proposed therapy takes the historical distribution of the
\* selected patient (applied to the predicted dose) exactly when a patient is
\* selected and the confidence is strictly above 70; otherwise its doses are
\* the dosing-schedule doses of the rule-based recommended dose; its
\* fludrocortisone is always the engine's fludrocortisone recommendation.
C23_ProposalSourceByConfidence ==
    HasReport =>
        LET personal == currentPatient # NULL /\ predictiveAnalysis.confidence > 7000
            schedule == << suggestion.morningDose, suggestion.middayDose,
                           suggestion.eveningDose >>
        IN  /\ personal =>
                  IsSplit(DosesOf(proposedTherapy), predictiveAnalysis.recommendedDose,
                          currentPatient.responsePatterns.optimalDistribution)
            /\ ~personal =>
                  /\ DosesOf(proposedTherapy) = schedule
                  /\ SumSeq(schedule) > 0 => \E pcts \in { <<70, 30, 0>>, <<67, 33, 0>>,
                                       <<45, 35, 20>>, <<50, 30, 20>> } :
                         IsSplit(schedule, suggestion.recommendedDose, pcts)
            /\ proposedTherapy.florinef = suggestion.fludroRecommendation

C23_Witness ==
    /\ HasReport
    /\ currentPatient = StoredPatient
    /\ predictiveAnalysis.confidence = 7000
    /\ LatestRecord = [acth |-> 80, bpSupSys |-> 150, bpSupDia |-> 85] @@ BlankRecord
    /\ currentTherapy = InitialTherapy
    /\ DosesOf(proposedTherapy) = << suggestion.morningDose, suggestion.middayDose,
                                     suggestion.eveningDose >>
    /\ ~IsSplit(DosesOf(proposedTherapy), predictiveAnalysis.recommendedDose,
                currentPatient.responsePatterns.optimalDistribution)

(***************************************************************************)
(* Alerts and consolidated lists of analyzeDrugInteractions.               *)
(***************************************************************************)
AlertedSeverities == {"critical", "major"}

TextsOf(detected, f) ==
    UNION { Range(detected[i][f]) : i \in 1..Len(detected) }

NoDuplicates(s) == Cardinality(Range(s)) = Len(s)

\* C24: analyzeDrugInteractions emits exactly one alert for each detected
\* drug of severity critical or major and none for a moderate or minor one,
\* every drug of the database is detected at most once whatever number of
\* its variants the text holds, and recommendations and requiresMonitoring
\* hold every text of the detected drugs, each once.
C24_AlertsAndConsolidatedLists ==
    (call.fn = "analyzeDrugInteractions" /\ call.done) =>
        LET res == call.result
            detected == res.detected
        IN  /\ \A i \in 1..Len(detected) :
                  Cardinality({ k \in 1..Len(res.alerts) :
                                  res.alerts[k].drug = detected[i].drugName })
                    = IF detected[i].severity \in AlertedSeverities
                      THEN 1 ELSE 0
            /\ \A k \in 1..Len(res.alerts) :
                  \E i \in 1..Len(detected) :
                      res.alerts[k].drug = detected[i].drugName
            /\ \A i, j \in 1..Len(detected) :
                  detected[i].drugName = detected[j].drugName => i = j
            /\ Range(res.recommendations) = TextsOf(detected, "recommendations")
            /\ NoDuplicates(res.recommendations)
            /\ Range(res.requiresMonitoring) = TextsOf(detected, "monitoring")
            /\ NoDuplicates(res.requiresMonitoring)

\* two inducers with common advice, one of them named by its brand
C24_Witness ==
    /\ call.fn = "analyzeDrugInteractions" /\ call.done
    /\ call.medicationsText = <<"Tegretol 200 mg e fenitoina">>
    /\ Len(call.result.detected) = 2
    /\ Len(call.result.alerts) = 2
    /\ Len(call.result.recommendations)
         < Len(FieldsOf(call.result.detected, "recommendations"))

(***************************************************************************)
(* The therapy history of a patient.                                       *)
(*                                                                         *)
(* The response pattern computed from a history holds real numbers: a      *)
(* fraction <<num, den>> in lowest terms, in the scale of the field        *)
(* (cortisoneToACTH, averageQoL, stabilityScore and doseResponseSlope in   *)
(* hundredths).                                                            *)
(***************************************************************************)
MaxHistory == 2

Effectiveness == {"excellent", "good", "fair", "poor"}

EffectivenessScore(e) ==
    IF e = "excellent" THEN 4 ELSE IF e = "good" THEN 3
    ELSE IF e = "fair" THEN 2 ELSE 1

AddRat(a, b) == Rat(a[1] * b[2] + b[1] * a[2], a[2] * b[2])

\* the sum over the entries of dose / total, for dose morning, midday or
\* evening (the totals of the entries are positive)
RECURSIVE ShareSum(_, _)
ShareSum(entries, dose) ==
    IF entries = <<>> THEN <<0, 1>>
    ELSE AddRat(Rat(Head(entries).therapy.cortisoneAcetate[dose],
                    TotalDose(Head(entries).therapy)),
                ShareSum(Tail(entries), dose))

calculateOptimalDistribution(history) ==
    LET successfulEntries ==
            SelectSeq(history, LAMBDA h : h.effectiveness \in {"excellent", "good"})
        n == Len(successfulEntries)
        Average(dose) ==
            LET sum == ShareSum(successfulEntries, dose)
            IN  MathRound(sum[1] * 100, sum[2] * n)
    IN  IF n = 0 THEN <<40, 30, 30>>
        ELSE << Average("morning"), Average("midday"), Average("evening") >>

\* sum over index >= 1 of doseChange * effectiveness, in centi-mg
RECURSIVE CorrelationSum(_)
CorrelationSum(history) ==
    IF Len(history) < 2 THEN 0
    ELSE LET n == Len(history)
             doseChange == TotalDose(history[n].therapy)
                             - TotalDose(history[n - 1].therapy)
         IN  doseChange * EffectivenessScore(history[n].effectiveness)
               + CorrelationSum(SubSeq(history, 1, n - 1))

analyzePatientResponse(patient) ==
    LET history == patient.therapyHistory
        correlations == Len(history) - 1
        sum == CorrelationSum(history)
        effectivenessScores ==
            [ i \in 1..Len(history) |-> EffectivenessScore(history[i].effectiveness) ]
        total == SumSeq(effectivenessScores)
    IN  IF Len(history) < 2
        THEN [ cortisoneToACTH |-> <<0, 1>>,
               optimalDistribution |-> <<40, 30, 30>>,
               averageQoL |-> <<5000, 1>>, stabilityScore |-> <<5000, 1>>,
               doseResponseSlope |-> <<50, 1>> ]
        ELSE [ cortisoneToACTH |->
                   IF sum > 1000 * correlations THEN <<100, 1>>
                   ELSE IF sum < -1000 * correlations THEN <<-100, 1>>
                   ELSE Rat(sum, 10 * correlations),
               optimalDistribution |-> calculateOptimalDistribution(history),
               averageQoL |-> Rat(total * 5000, Len(history)),
               stabilityScore |-> Rat(total * 2500, Len(history)),
               doseResponseSlope |-> Rat(Abs(sum), correlations) ]

\* TherapyHistory's "add entry", as addTherapyEntry runs it.  The dialog that
\* holds the form is drawn over the details view.
AddTherapyEntry(effectiveness) ==
    /\ showDetailsView
    /\ currentPatient # NULL => Len(currentPatient.therapyHistory) < MaxHistory
    /\ call' = [fn |-> "addTherapyEntry", effectiveness |-> effectiveness]
    /\ IF currentPatient = NULL
       THEN UNCHANGED << patients, currentPatient >>
       ELSE LET newEntry == [ therapy |-> currentTherapy, duration |-> 30,
                              effectiveness |-> effectiveness ]
                extended == [ currentPatient EXCEPT
                                !.therapyHistory = Append(@, newEntry) ]
                updatedPatient ==
                    [ extended EXCEPT
                        !.responsePatterns = analyzePatientResponse(extended) ]
            IN  /\ savePatientData(updatedPatient)
                /\ currentPatient' = updatedPatient
    /\ UNCHANGED << records, suggestion, currentTherapy, proposedTherapy,
                    editingTherapy, predictiveAnalysis, smartNotifications,
                    workflowStep, showDetailsView, therapyChanges >>

\* a session in which a patient is chosen, a record entered and the therapy
\* history filled in the details view
NextHistory ==
    \/ \E i \in 1..Len(patients) : SelectPatient(patients[i])
    \/ SubmitRecord(BlankRecord)
    \/ ShowDetails
    \/ \E edit \in TherapyEdits : UpdateCurrentTherapy(edit[1], edit[2])
    \/ DeselectPatient
    \/ \E effectiveness \in Effectiveness : AddTherapyEntry(effectiveness)

SpecHistory == Init /\ [][NextHistory]_vars

EntryAppended ==
    /\ currentPatient # NULL
    /\ currentPatient' # NULL
    /\ currentPatient'.id = currentPatient.id
    /\ Len(currentPatient'.therapyHistory) > Len(currentPatient.therapyHistory)

\* C25: a step in which the selected patient's history grows appends one
\* entry holding the current therapy, sets responsePatterns to
\* analyzePatientResponse of the extended history with a stabilityScore
\* within 0 .. 100, and leaves that profile as the only one of its id in
\* patients; addTherapyEntry called with no patient selected leaves the
\* application as it was.
C25_TherapyEntryExtendsProfile ==
    [][ /\ EntryAppended =>
            LET old == currentPatient.therapyHistory
                new == currentPatient'.therapyHistory
                score == currentPatient'.responsePatterns.stabilityScore
            IN  /\ Len(new) = Len(old) + 1
                /\ SubSeq(new, 1, Len(old)) = old
                /\ new[Len(new)].therapy = currentTherapy
                /\ currentPatient'.responsePatterns
                     = analyzePatientResponse(currentPatient')
                /\ 0 <= score[1] /\ score[1] <= 10000 * score[2]
                /\ Cardinality({ i \in 1..Len(patients') :
                                    patients'[i].id = currentPatient.id }) = 1
                /\ \A i \in 1..Len(patients') :
                      patients'[i].id = currentPatient.id
                          => patients'[i] = currentPatient'
        /\ (currentPatient = NULL /\ call' # call
              /\ call'.fn = "addTherapyEntry") => UNCHANGED app ]_vars

\* two entries with different total doses are in the profile, in both places
C25_Witness ==
    /\ currentPatient # NULL
    /\ Len(currentPatient.therapyHistory) = 2
    /\ currentPatient.responsePatterns.doseResponseSlope # <<0, 1>>
    /\ currentPatient.responsePatterns.stabilityScore = <<8750, 1>>
    /\ \E i \in 1..Len(patients) :
          patients[i].id = currentPatient.id /\ patients[i] = currentPatient

(***************************************************************************)
(* The proposal and the patient it was computed for.                       *)
(***************************************************************************)
SelectedId == IF currentPatient = NULL THEN NULL ELSE <<currentPatient.id>>

\* C26: every step that selects a different patient, clears the selection or
\* brings the workflow back to 'select-patient' leaves proposedTherapy null,
\* so a proposal computed for one patient is never shown or applicable with
\* another patient (or none) selected.
C26_PatientChangeClearsProposal ==
    [][ (\/ SelectedId' # SelectedId
         \/ workflowStep # "select-patient" /\ workflowStep' = "select-patient")
            => proposedTherapy' = NULL ]_vars

(***************************************************************************)
(* What the page renders.                                                  *)
(***************************************************************************)
ScreenRendered ==
    \/ workflowStep = "select-patient"
    \/ workflowStep = "enter-record" /\ currentPatient # NULL
    \/ workflowStep = "view-plan" /\ currentPatient # NULL /\ ~showDetailsView
    \/ showDetailsView

\* C27: in every reachable state a patient is selected whenever workflowStep
\* is 'enter-record' or 'view-plan', and one of the screens (a workflow step
\* or the details view) is rendered.
C27_StepHasPatientAndScreen ==
    /\ workflowStep \in {"enter-record", "view-plan"} => currentPatient # NULL
    /\ ScreenRendered

(***************************************************************************)
(* The document import as the asynchronous handler it is: handleFileUpload *)
(* awaits processUploadedFile, and the page stays usable meanwhile (the    *)
(* import dialog can be closed).  The handler keeps the patients and       *)
(* currentPatient of the render in which the upload started; call holds    *)
(* the upload in flight.                                                   *)
(***************************************************************************)
\* Date.now().toString() at the end of an import
ImportId == "1700000000002"

StartFileUpload(file) ==
    /\ showDetailsView
    /\ call.fn = "none"
    /\ call' = [ fn |-> "handleFileUpload", file |-> file,
                 patients |-> patients, currentPatient |-> currentPatient ]
    /\ UNCHANGED app

\* the awaited processing ends: setRecords(prev => [...prev, ...labResults])
\* on the current list, then savePatientData of the render that started the
\* upload
FinishFileUpload ==
    /\ call.fn = "handleFileUpload"
    /\ LET file == call.file
           labResults == parseLabResults(file.content)
           confidence == Min(95, file.dataFields * 15 + 20)
           autoPatient == confidence > 70 /\ call.currentPatient = NULL
                          /\ file.dataFields > 3
       IN  /\ Len(records) + Len(labResults) <= MaxRecords
           /\ records' = IF Len(labResults) > 0 THEN Spread(records, labResults)
                         ELSE records
           /\ IF autoPatient
              THEN /\ patients' = Append(WithoutId(call.patients, ImportId),
                                         NewPatient(ImportId))
                   /\ currentPatient' = NewPatient(ImportId)
              ELSE UNCHANGED << patients, currentPatient >>
    /\ call' = [fn |-> "none"]
    /\ UNCHANGED << suggestion, currentTherapy, proposedTherapy,
                    editingTherapy, predictiveAnalysis, smartNotifications,
                    workflowStep, showDetailsView, therapyChanges >>

NextUpload ==
    \/ \E i \in 1..Len(patients) : SelectPatient(patients[i])
    \/ SubmitRecord(BlankRecord)
    \/ ShowDetails
    \/ DeselectPatient
    \/ SavePatient
    \/ \E file \in UploadedFiles : StartFileUpload(file)
    \/ FinishFileUpload

SpecUpload == Init /\ [][NextUpload]_vars

\* C28: no save loses a patient: every step keeps every patient id of the
\* list, and the list never holds two profiles of one id.
C28_SavesKeepEveryPatient ==
    [][ /\ UsedIds \subseteq UsedIds'
        /\ \A i, j \in 1..Len(patients') :
              patients'[i].id = patients'[j].id => i = j ]_vars

(***************************************************************************)
(* validateTherapyValues: the set of the checks that fail (doses in        *)
(* centi-mg, florinef in thousandths of a mg).                             *)
(***************************************************************************)
validateTherapyValues(values) ==
    LET cortisoneTotal == TotalDose(values)
        morning == values.cortisoneAcetate.morning
    IN  (IF cortisoneTotal < 1000 \/ cortisoneTotal > 6000
         THEN {"total"} ELSE {})
        \cup (IF cortisoneTotal # 0 /\ morning * 100 < 50 * cortisoneTotal
              THEN {"morningPercentage"} ELSE {})
        \cup (IF values.florinef < 25 \/ values.florinef > 300
              THEN {"florinefRange"} ELSE {})
        \cup { dose \in {"morning", "midday", "evening"} :
                 values.cortisoneAcetate[dose] % 25 # 0 }
        \cup (IF values.florinef % 25 > 1 THEN {"florinefStep"} ELSE {})

\* C29: a proposal computed from a current therapy that passes
\* validateTherapyValues passes validateTherapyValues itself.
C29_ProposalPassesValidation ==
    (proposedTherapy # NULL /\ validateTherapyValues(currentTherapy) = {})
        => validateTherapyValues(proposedTherapy) = {}

(***************************************************************************)
(* Applying the proposal.                                                  *)
(***************************************************************************)
\* a step that shows the message of applyProposedTherapy
ProposalApplied == suggestion' = AppliedMessage /\ suggestion # AppliedMessage

\* C30: a step of applyProposedTherapy happens only with a proposal, sets
\* currentTherapy and editingTherapy to it, resets proposedTherapy to null
\* and leaves records and patients as they were; no proposal appears while
\* the message of the application stands, and the next run of the engine
\* computes its proposal from the applied therapy.
C30_ApplyInstallsProposalOnce ==
    [][ /\ ProposalApplied =>
              /\ proposedTherapy # NULL
              /\ currentTherapy' = proposedTherapy
              /\ editingTherapy' = proposedTherapy
              /\ proposedTherapy' = NULL
              /\ UNCHANGED << records, patients >>
        /\ (suggestion = AppliedMessage /\ suggestion' = AppliedMessage)
              => proposedTherapy' = NULL
        /\ (suggestion = AppliedMessage /\ RunsAlgorithmOn(records)
              /\ Len(records) > 0)
              => proposedTherapy'
                   = Evaluate(records, currentTherapy, currentPatient).proposedTherapy
      ]_vars

\* the proposal of a run has been applied
C30_Witness ==
    /\ suggestion = AppliedMessage
    /\ proposedTherapy = NULL
    /\ currentTherapy # InitialTherapy
    /\ editingTherapy = currentTherapy
    /\ Len(records) > 0
=============================================================================
